---- MODULE Spec2Model ----
(***************************************************************************)
(* A model of the adeploy server: the Deploy RPC handler                   *)
(* (src/src/server.rs), the deployment engine it drives                    *)
(* (src/src/deploy.rs), the Ed25519 gate (src/src/auth.rs) and the config  *)
(* watcher that republishes the shared server config.                      *)
(*                                                                         *)
(* Conventions.  A Rust Option is a sequence of length 0 (None) or 1       *)
(* (Some).  A text string that the code trims or base64-decodes is a       *)
(* sequence of tokens, so that trimming is computed and not assumed.  A    *)
(* byte string is a sequence of bits.  Cryptography is ideal: a signature  *)
(* names its signer and message, a digest names its pre-image.             *)
(***************************************************************************)
EXTENDS Integers, Sequences, FiniteSets, TLC

\* ------------------------------------------------------------------ bounds
MaxDataLen == 2      \* longest file_data byte string a request carries
MaxDeploys == 1      \* deploys that may enter the engine (deploy ids minted)
MaxClock == 1        \* UTC seconds the wall clock may advance
MaxFileWrites == 1   \* times the operator rewrites the server config file
MaxWarnings == 2     \* reload-failure warnings counted for one file version
MaxNames == 3        \* package names given to one client invocation

Slots == {1, 2}      \* the request tasks of the runtime

\* ------------------------------------------------------------ text strings
LF == "LF"
Whitespace == {LF, " "}

RECURSIVE TrimStart(_)
TrimStart(s) ==
  IF Len(s) > 0 /\ Head(s) \in Whitespace THEN TrimStart(Tail(s)) ELSE s

RECURSIVE TrimEnd(_)
TrimEnd(s) ==
  IF Len(s) > 0 /\ s[Len(s)] \in Whitespace
  THEN TrimEnd(SubSeq(s, 1, Len(s) - 1))
  ELSE s

\* str::trim
Trim(s) == TrimEnd(TrimStart(s))

\* ---------------------------------------------------------------- keys
Keys == {"k1", "k2"}                   \* Ed25519 key pairs
PubKeyString(k) == <<k>>               \* base64 of the 32 public-key bytes
PublicKeyStrings ==
  {PubKeyString(k) : k \in Keys}
    \cup {<<"k1", LF>>}                \* the .pub text with a trailing newline
    \cup {<<"invalid-test-key">>}      \* not base64

\* general_purpose::STANDARD.decode on a public-key string: Some(key) or None
DecodePublicKey(s) ==
  IF Len(s) = 1 /\ s[1] \in Keys THEN <<s[1]>> ELSE <<>>

\* ---------------------------------------------------------------- bytes
Bytes == UNION {[1..n -> {0, 1}] : n \in 1..MaxDataLen}
Flip(d, i) == [d EXCEPT ![i] = 1 - d[i]]

\* hex SHA-256 of a byte string
Sha256Hex(d) == [alg |-> "sha256", of |-> d]

SignatureLen == 64
\* SigningKey::sign: the 64 signature bytes of key k over data d
sign_data(k, d) == [signer |-> k, msg |-> d, len |-> SignatureLen]
\* a signature cut short by one byte
Truncated(sig) == [sig EXCEPT !.len = SignatureLen - 1]

\* the signature field of a request: base64 text, well formed or not
EncodeSignature(sig) == [wellformed |-> TRUE, raw |-> sig]
MalformedSignature(sig) == [wellformed |-> FALSE, raw |-> sig]
\* a decoder that skips what it cannot decode instead of failing
DecodeSignatureLenient(field) == <<field.raw>>
\* general_purpose::STANDARD.decode(&req.signature): Some(bytes) or None
DecodeSignature(field) == IF field.wellformed THEN <<field.raw>> ELSE <<>>

\* ---------------------------------------------------------------- archive
BackupTxt == 0       \* a file of the deploy directory that no archive holds
\* the marker files the hook scripts touch in the deploy directory
PreMarker == 1
PostMarker == 0 - 1
\* gunzip + untar of a byte string: the first bit is the gzip magic, and
\* each zero bit at position i is the header of the member named i + 1
ArchiveCorrupt(d) == d[1] = 1
ArchiveMembers(d) == {i + 1 : i \in {j \in 1..Len(d) : d[j] = 0}}
ArchiveContent(d, i) == "new"

\* ---------------------------------------------------------- Auth (auth.rs)
AuthErr(text) == [ok |-> FALSE, valid |-> FALSE, error |-> text]
AuthOk(valid) == [ok |-> TRUE, valid |-> valid, error |-> ""]

\* the verdict of VerifyingKey::verify, ignoring the signed message
verify_signature_any_message(public_key_str, data, signature_bytes) ==
  LET key == DecodePublicKey(Trim(public_key_str)) IN
  IF key = <<>> THEN AuthErr("Failed to decode public key")
  ELSE IF signature_bytes.len # SignatureLen
       THEN AuthErr("Failed to convert signature bytes")
       ELSE AuthOk(signature_bytes.signer = key[1])

\* a verification that reports a mismatch as an error
verify_signature_strict(public_key_str, data, signature_bytes) ==
  LET key == DecodePublicKey(Trim(public_key_str)) IN
  IF key = <<>> THEN AuthErr("Failed to decode public key")
  ELSE IF signature_bytes.len # SignatureLen
       THEN AuthErr("Failed to convert signature bytes")
       ELSE IF signature_bytes.signer = key[1] /\ signature_bytes.msg = data
            THEN AuthOk(TRUE)
            ELSE AuthErr("signature error")
\* Auth::verify_signature: Result<bool>
verify_signature(public_key_str, data, signature_bytes) ==
  LET key == DecodePublicKey(Trim(public_key_str)) IN
  IF key = <<>> THEN AuthErr("Failed to decode public key")
  ELSE IF signature_bytes.len # SignatureLen
       THEN AuthErr("Failed to convert signature bytes")
       ELSE AuthOk(signature_bytes.signer = key[1]
                     /\ signature_bytes.msg = data)

\* ------------------------------------------------------- config (config.rs)
PackageNames == {"app", "ghost"}
DeployPath == "/srv/app"
BackupRoot == "/var/backups/app"
StartupPort == 6060
OtherPort == StartupPort + 1

ServerPackageConfig(pre, post, backup) ==
  [deploy_path |-> DeployPath,
   before_deploy_script |-> pre,
   after_deploy_script |-> post,
   backup_enabled |-> backup,
   backup_path |-> <<BackupRoot>>]

\* the server config files an operator may install
CfgStandard ==
  [server |-> [port |-> StartupPort, max_file_size |-> 0,
               allowed_keys |-> {PubKeyString("k1")}],
   packages |-> [n \in {"app"} |->
                   ServerPackageConfig(<<"pre.sh">>, <<"post.sh">>, TRUE)]]
CfgBackupDisabled ==
  [server |-> [port |-> OtherPort, max_file_size |-> 1,
               allowed_keys |-> {PubKeyString("k1"), PubKeyString("k2")}],
   packages |-> [n \in {"app"} |->
                   ServerPackageConfig(<<>>, <<"post.sh">>, FALSE)]]
CfgUnauthorized ==
  [server |-> [port |-> StartupPort, max_file_size |-> 0,
               allowed_keys |-> {<<"invalid-test-key">>}],
   packages |-> [n \in {"app"} |->
                   ServerPackageConfig(<<"pre.sh">>, <<>>, TRUE)]]

ParseableFiles == {"standard", "backup_disabled", "unauthorized"}
FileContents == ParseableFiles \cup {"garbage"}

\* ConfigProvider::load_server_config: Some(config) or None on a parse error
load_server_config(content) ==
  CASE content = "standard" -> <<CfgStandard>>
    [] content = "backup_disabled" -> <<CfgBackupDisabled>>
    [] content = "unauthorized" -> <<CfgUnauthorized>>
    [] OTHER -> <<>>

\* ------------------------------------------------------------ requests
\* byte strings one bit away from d, and d itself
NearBytes(d) == {d} \cup {Flip(d, i) : i \in 1..Len(d)}

SignatureFields(d) ==
  {EncodeSignature(sign_data(k, m)) : k \in Keys, m \in NearBytes(d)}
    \cup {EncodeSignature(Truncated(sign_data("k1", d))),
          MalformedSignature(sign_data("k1", d))}

DeployRequests ==
  UNION {
    [package_name : PackageNames,
     file_data : {d},
     file_hash : {Sha256Hex(m) : m \in NearBytes(d)},
     signature : SignatureFields(d),
     public_key : PublicKeyStrings]
    : d \in Bytes }

NoRequest ==
  [package_name |-> "", file_data |-> <<0>>, file_hash |-> Sha256Hex(<<0>>),
   signature |-> MalformedSignature(sign_data("k1", <<0>>)),
   public_key |-> <<>>]

\* --------------------------------------------- the handler's gate (server.rs)
\* allow-list test that trims both sides before comparing
is_allowed_trimmed(allowed_keys, public_key) ==
  \E allowed_key \in allowed_keys : Trim(allowed_key) = Trim(public_key)

\* allow-list test that accepts every key
is_allowed_always(allowed_keys, public_key) == TRUE

\* allowed_keys.iter().any(|allowed_key| allowed_key == &req.public_key)
is_allowed(allowed_keys, public_key) ==
  \E allowed_key \in allowed_keys : allowed_key = public_key

\* a lookup that falls back to some configured package
packages_get_or_any(packages, package_name) ==
  IF package_name \in DOMAIN packages
  THEN <<packages[package_name]>>
  ELSE <<packages[CHOOSE n \in DOMAIN packages : TRUE]>>
\* config.packages.get(&req.package_name).cloned()
packages_get(packages, package_name) ==
  IF package_name \in DOMAIN packages
  THEN <<packages[package_name]>>
  ELSE <<>>

\* format!("Package '{}' not configured", req.package_name)
NotConfigured(package_name) ==
  "Package '" \o package_name \o "' not configured"

\* every config the RwLock has held, oldest first
VARIABLE published

\* a snapshot whose max_file_size is read under an earlier acquisition of
\* the lock than its other two fields
ConfigSnapshotTorn(config, package_name) ==
  [allowed_keys |-> config.server.allowed_keys,
   package_config |-> packages_get(config.packages, package_name),
   max_file_size |-> published[1].server.max_file_size]
\* the (allowed_keys, package_config, max_file_size) snapshot of one request
ConfigSnapshot(config, package_name) ==
  [allowed_keys |-> config.server.allowed_keys,
   package_config |-> packages_get(config.packages, package_name),
   max_file_size |-> config.server.max_file_size]

NoSnapshot ==
  [allowed_keys |-> {}, package_config |-> <<>>, max_file_size |-> 0]

Rejected(code, message, steps) ==
  [admitted |-> FALSE, code |-> code, message |-> message, steps |-> steps]
Admitted(steps) ==
  [admitted |-> TRUE, code |-> "Ok", message |-> "", steps |-> steps]

\* AdeployService::deploy up to the hand-off to the engine: the checks in the
\* order the handler makes them, and the steps it has run when it decides
deploy_gate(req, config) ==
  LET signature == DecodeSignature(req.signature) IN
  IF signature = <<>>
  THEN Rejected("InvalidArgument", "Invalid signature", <<"decode">>)
  ELSE
  LET snap == ConfigSnapshot(config, req.package_name) IN
  IF ~is_allowed(snap.allowed_keys, req.public_key)
  THEN Rejected("Unauthenticated", "Client public key not allowed",
                <<"decode", "snapshot", "allow_list">>)
  ELSE
  LET verdict == verify_signature(req.public_key, req.file_data, signature[1])
  IN
  IF verdict.ok /\ ~verdict.valid
  THEN Rejected("Unauthenticated", "Invalid Ed25519 signature",
                <<"decode", "snapshot", "allow_list", "verify">>)
  ELSE IF ~verdict.ok
  THEN Rejected("Unauthenticated", "Auth error",
                <<"decode", "snapshot", "allow_list", "verify">>)
  ELSE IF snap.package_config = <<>>
  THEN Rejected("NotFound", NotConfigured(req.package_name),
                <<"decode", "snapshot", "allow_list", "verify", "lookup">>)
  ELSE IF snap.max_file_size > 0 /\ Len(req.file_data) > snap.max_file_size
  THEN Rejected("ResourceExhausted",
                "Archive size exceeds configured max_file_size",
                <<"decode", "snapshot", "allow_list", "verify", "lookup",
                  "size">>)
  ELSE Admitted(<<"decode", "snapshot", "allow_list", "verify", "lookup",
                  "size">>)

\* ------------------------------------------------ log entries and errors
Entry(level, text) ==
  [level |-> level, text |-> text, cause |-> "", code |-> 0, id |-> 0]
EntryFor(text, id) ==
  [level |-> "info", text |-> text, cause |-> "", code |-> 0, id |-> id]
EntryError(text, e) ==
  [level |-> "error", text |-> text, cause |-> e.text, code |-> e.code,
   id |-> 0]

\* AdeployError::Deploy / AdeployError::FileSystem
DeployError(text, code) == [kind |-> "Deploy", text |-> text, code |-> code]
FileSystemError(text) == [kind |-> "FileSystem", text |-> text, code |-> 0]

EmptyDir == [i \in {} |-> "old"]
Merge(f, g) ==
  [x \in DOMAIN f \cup DOMAIN g |-> IF x \in DOMAIN g THEN g[x] ELSE f[x]]
Put(f, k, v) == Merge(f, [x \in {k} |-> v])

\* ---------------------------------------------------- HookRunner (deploy.rs)
\* what the subprocess of a hook may do: touch its marker and exit 0, or
\* write to stderr and exit 1; its exit code and captured lines
HookRuns ==
  {[code |-> 0, touch |-> TRUE, lines |-> <<Entry("info", "hook stdout")>>],
   [code |-> 1, touch |-> FALSE,
    lines |-> <<Entry("info", "STDERR: hook failed")>>]}

\* the deploy directory after a hook's subprocess has run in it
Touched(dir, run, marker) ==
  IF run.touch /\ dir.exists
  THEN [dir EXCEPT !.files = Put(@, marker, "marker")]
  ELSE dir

\* DeployManager::execute_script after the subprocess has exited
execute_script(run) ==
  IF run.code # 0
  THEN [ok |-> FALSE, lines |-> <<>>,
        error |-> DeployError("Script execution failed with exit code",
                              run.code)]
  ELSE [ok |-> TRUE, lines |-> run.lines, error |-> DeployError("", 0)]

\* the step recorded for the exit status of a hook's subprocess
ExitStep(stage, code) ==
  IF stage = "pre"
  THEN (IF code = 0 THEN "pre_exit_zero" ELSE "pre_exit_nonzero")
  ELSE (IF code = 0 THEN "post_exit_zero" ELSE "post_exit_nonzero")

\* a pre-hook whose failure is only logged
before_deploy_failure_logged(result) == FALSE
\* execute_deployment, before-deploy arm: Err(e) => return Err(e)
before_deploy_aborts(result) == ~result.ok

\* a post-hook whose failure is returned
after_deploy_failure_returned(result) == ~result.ok
\* execute_deployment, after-deploy arm: the error is logged, not returned
after_deploy_aborts(result) == FALSE

\* ------------------------------------------------------- engine (deploy.rs)
\* DeployManager::verify_archive_hash: does the recomputed digest match
verify_archive_hash(archive_data, expected_hash) ==
  Sha256Hex(archive_data) = expected_hash

\* a copy that is started and not awaited
copy_directory_detached(task) == TRUE
\* DeployManager::copy_directory: the await on the blocking copy task
\* resolves once the task has returned
copy_directory_ready(task) == task \in {"finished", "failed"}

\* the files a well-formed archive unpacks to
Unpacked(archive_data) ==
  [i \in ArchiveMembers(archive_data) |-> ArchiveContent(archive_data, i)]

\* the encoded failure transcript of AdeployService::deploy, Err(e) arm
FailureLogs(e) ==
  <<EntryError("Deployment failed", e)>>
    \o (IF e.kind = "Deploy" THEN <<EntryError("Details", e)>> ELSE <<>>)

NoManager == [deploy_id |-> 0, start_time |-> 0]
NoResponse ==
  [transport |-> "none", code |-> "", message |-> "", success |-> FALSE,
   deploy_id |-> 0, logs |-> <<>>]
TransportError(code, message) ==
  [transport |-> "error", code |-> code, message |-> message,
   success |-> FALSE, deploy_id |-> 0, logs |-> <<>>]
DeployResponse(success, message, deploy_id, logs) ==
  [transport |-> "ok", code |-> "Ok", message |-> message,
   success |-> success, deploy_id |-> deploy_id, logs |-> logs]

\* ------------------------------------------------------------------ state
VARIABLES
  config,         \* the ServerConfig behind the RwLock
  file,           \* the content of the server config file
  mtime,          \* its modification time
  watcher,        \* "unspawned" until the watcher task first runs
  last_modified,  \* the watcher's Option<SystemTime>
  last_error,     \* the watcher's Option<String>
  warned,         \* reload-failure warnings logged since the file was written
  server,         \* "serving" until start_server_with_shutdown returns
  shutdown,       \* the value in the watch channel of the WatcherGuard
  message_limit,  \* the transport's max decoding/encoding message size
  clock,          \* the UTC wall clock, in seconds
  next_id,        \* deploy ids minted so far
  deploy_dir,     \* the deploy directory: does it exist, and its files
  backup_root,    \* the backup root: does it exist, and its snapshots
  pc,             \* per request task: where its handler stands
  req,            \* per request task: the DeployRequest
  archive,        \* per request task: the file_data taken out of the request
  snap,           \* per request task: the config snapshot it took
  mgr,            \* per request task: its DeployManager
  logs,           \* per request task: the transcript execute_deployment builds
  steps,          \* per request task: the steps run so far, in order
  resp,           \* per request task: what the RPC returned
  copy_task,      \* per request task: its blocking backup-copy task
  copy_left,      \* per request task: entries the copy task has yet to copy
  seen,           \* per request task: the deploy directory as the deploy
                  \* found it on entry and at its backup stage
  cl_pc,          \* the client invocation: where deploy_packages stands
  cl_in,          \* its arguments: host, config, package_names
  cl_remote,      \* the Option<&RemoteConfig> it resolved
  cl_channel,     \* gRPC channels it has connected
  cl_keys,        \* the key pair and public-key text it loaded
  cl_queue,       \* packages_to_deploy not yet deployed
  cl_sent,        \* the DeployRequests it has sent, in order
  cl_replies,     \* what client.deploy returned for them, in order
  cl_result,      \* what deploy_packages returned
  au_signed,      \* a call of Auth::sign_data: key pair, data, signature
  au_verified     \* a call of Auth::verify_signature: arguments and result

cfgVars ==
  <<config, file, mtime, watcher, last_modified, last_error, warned, server,
    shutdown, message_limit, published>>
fsVars == <<deploy_dir, backup_root>>
taskVars ==
  <<pc, req, archive, snap, mgr, logs, steps, resp, copy_task, copy_left,
    seen>>
clientVars ==
  <<cl_pc, cl_in, cl_remote, cl_channel, cl_keys, cl_queue, cl_sent,
    cl_replies, cl_result>>
serverVars == <<cfgVars, clock, next_id, fsVars, taskVars>>
authVars == <<au_signed, au_verified>>
vars == <<serverVars, clientVars, authVars>>

\* const DEFAULT_MAX_MESSAGE_SIZE: u64 = 100 * 1024 * 1024
DEFAULT_MAX_MESSAGE_SIZE == 100 * 1024 * 1024

\* resolve_message_limit: 0 means the default; on a 64-bit target the
\* conversion to usize changes nothing
resolve_message_limit(limit) ==
  IF limit = 0 THEN DEFAULT_MAX_MESSAGE_SIZE ELSE limit

NoInvocation == [host |-> "", config |-> <<>>, package_names |-> <<>>]

NoDir == [exists |-> FALSE, files |-> EmptyDir]
NotSeen ==
  [entry |-> NoDir, backup |-> NoDir, hashed |-> <<>>, unpacked |-> <<>>]

Init ==
  /\ file \in ParseableFiles
  /\ config = load_server_config(file)[1]
  /\ mtime = 0
  /\ watcher = "unspawned"
  /\ last_modified = <<>>
  /\ last_error = <<>>
  /\ warned = 0
  /\ server = "serving"
  /\ shutdown = FALSE
  /\ message_limit = resolve_message_limit(config.server.max_file_size)
  /\ published = <<config>>
  /\ clock = 0
  /\ next_id = 0
  /\ deploy_dir \in {[exists |-> FALSE, files |-> EmptyDir],
                     [exists |-> TRUE, files |-> Put(EmptyDir, BackupTxt, "old")]}
  /\ backup_root = [exists |-> FALSE, snaps |-> <<>>]
  /\ pc = [r \in Slots |-> "idle"]
  /\ req = [r \in Slots |-> NoRequest]
  /\ archive = [r \in Slots |-> <<>>]
  /\ snap = [r \in Slots |-> NoSnapshot]
  /\ mgr = [r \in Slots |-> NoManager]
  /\ logs = [r \in Slots |-> <<>>]
  /\ steps = [r \in Slots |-> <<>>]
  /\ resp = [r \in Slots |-> NoResponse]
  /\ copy_task = [r \in Slots |-> "none"]
  /\ copy_left = [r \in Slots |-> {}]
  /\ seen = [r \in Slots |-> NotSeen]
  /\ cl_pc = "idle"
  /\ cl_in = NoInvocation
  /\ cl_remote = <<>>
  /\ cl_channel = 0
  /\ cl_keys = <<>>
  /\ cl_queue = <<>>
  /\ cl_sent = <<>>
  /\ cl_replies = <<>>
  /\ cl_result = <<>>
  /\ au_signed = <<>>
  /\ au_verified = <<>>

\* ------------------------------------------------- the handler (server.rs)
\* the package entry read from the active config at each use
PackageConfigLive(r) == config.packages[req[r].package_name]
\* the package_config the handler cloned into its snapshot and passes on
PackageConfig(r) == snap[r].package_config[1]

\* an engine failure answered with a transport status
FailWithStatus(r, e) ==
  /\ resp' = [resp EXCEPT ![r] = TransportError("Internal", e.text)]
  /\ pc' = [pc EXCEPT ![r] = "done"]

\* AdeployService::deploy, Err(e) arm: the failure goes back in-band
Fail(r, e) ==
  /\ resp' = [resp EXCEPT ![r] =
       DeployResponse(FALSE, e.text, mgr[r].deploy_id, FailureLogs(e))]
  /\ pc' = [pc EXCEPT ![r] = "done"]

\* a handler that waits while another task works on the same package
package_lock_exclusive(r, q) ==
  \A other \in Slots \ {r} :
    pc[other] \in {"idle", "done"} \/ req[other].package_name # q.package_name
\* what the handler waits for before it works on a package: nothing, it
\* takes the config read lock for its snapshot only
package_lock(r, q) == TRUE

\* std::mem::take(&mut req.file_data)
take_file_data(q) == q.file_data

\* AdeployService::deploy from the arrival of request q to the first await of
\* execute_deployment: the gate, then DeployManager::new and the opening lines
deploy_upto(r, q, cap) ==
  /\ server = "serving"
  /\ pc[r] = "idle"
  /\ package_lock(r, q)
  /\ LET gate == deploy_gate(q, config) IN
     /\ req' = [req EXCEPT ![r] = q]
     /\ snap' = [snap EXCEPT ![r] =
          IF \E i \in 1..Len(gate.steps) : gate.steps[i] = "snapshot"
          THEN ConfigSnapshot(config, q.package_name)
          ELSE NoSnapshot]
     /\ IF gate.admitted
        THEN /\ next_id < cap
             /\ \E now \in {clock, clock + 1} :
                  /\ now <= MaxClock
                  /\ clock' = now
                  /\ mgr' = [mgr EXCEPT ![r] =
                       [deploy_id |-> next_id + 1, start_time |-> now]]
             /\ next_id' = next_id + 1
             /\ steps' = [steps EXCEPT ![r] = gate.steps \o <<"mint">>]
             /\ logs' = [logs EXCEPT ![r] =
                  <<EntryFor("Starting deployment execution", next_id + 1),
                    Entry("info", "Running Before-deploy script...")>>]
             /\ pc' = [pc EXCEPT ![r] = "pre_hook"]
             /\ seen' = [seen EXCEPT ![r].entry = deploy_dir]
             /\ archive' = [archive EXCEPT ![r] = take_file_data(q)]
             /\ UNCHANGED resp
        ELSE /\ steps' = [steps EXCEPT ![r] = gate.steps]
             /\ resp' = [resp EXCEPT ![r] =
                  TransportError(gate.code, gate.message)]
             /\ pc' = [pc EXCEPT ![r] = "done"]
             /\ UNCHANGED <<clock, next_id, mgr, logs, seen, archive>>
  /\ UNCHANGED <<cfgVars, fsVars, copy_task, copy_left>>
  /\ UNCHANGED clientVars
  /\ UNCHANGED authVars

\* the handler, serving MaxDeploys admitted requests in all
deploy(r, q) == deploy_upto(r, q, MaxDeploys)

\* execute_deployment: the before-deploy hook (run_deploy_script)
PreHook(r) ==
  /\ pc[r] = "pre_hook"
  /\ LET script == PackageConfig(r).before_deploy_script IN
     IF script = <<>>
     THEN /\ steps' = [steps EXCEPT ![r] = @ \o <<"pre_hook">>]
          /\ logs' = [logs EXCEPT ![r] = @ \o
               <<Entry("info", "Before-deploy script succeeded"),
                 Entry("info", "Extracting files...")>>]
          /\ pc' = [pc EXCEPT ![r] = "hash_check"]
          /\ UNCHANGED <<resp, deploy_dir>>
     ELSE \E run \in HookRuns :
          LET result == execute_script(run) IN
          /\ deploy_dir' = Touched(deploy_dir, run, PreMarker)
          /\ steps' = [steps EXCEPT ![r] = @ \o
               <<"pre_hook", "exec_pre", ExitStep("pre", run.code)>>]
          /\ IF before_deploy_aborts(result)
             THEN /\ logs' = [logs EXCEPT ![r] = @ \o
                       <<EntryError("Before-deploy script failed",
                                    result.error)>>]
                  /\ Fail(r, result.error)
             ELSE /\ logs' = [logs EXCEPT ![r] = @ \o result.lines \o
                       <<Entry("info", "Before-deploy script succeeded"),
                         Entry("info", "Extracting files...")>>]
                  /\ pc' = [pc EXCEPT ![r] = "hash_check"]
                  /\ UNCHANGED resp
  /\ UNCHANGED <<cfgVars, clock, next_id, backup_root, req, archive, snap, mgr,
                 copy_task, copy_left, seen>>
  /\ UNCHANGED clientVars
  /\ UNCHANGED authVars

\* a backup taken whatever the package's flag says
backup_always(package) == TRUE
\* extract_files: if config.backup_enabled { create_backup }
backup_wanted(package) == package.backup_enabled

\* a hash stage that hands on a re-framed copy of the bytes it hashed
archive_after_hash_reframed(archive_data) ==
  archive_data \o <<0>>
\* verify_archive_hash: Ok(archive_data), the Vec it was given
archive_after_hash(archive_data) == archive_data

\* extract_files: verify_archive_hash
VerifyHash(r) ==
  /\ pc[r] = "hash_check"
  /\ steps' = [steps EXCEPT ![r] = @ \o <<"hash_check">>]
  /\ seen' = [seen EXCEPT ![r].hashed = <<archive[r]>>]
  /\ IF verify_archive_hash(archive[r], req[r].file_hash)
     THEN /\ archive' = [archive EXCEPT ![r] = archive_after_hash(@)]
          /\ pc' = [pc EXCEPT ![r] =
               IF backup_wanted(PackageConfig(r)) THEN "backup" ELSE "mkdir"]
          /\ UNCHANGED <<logs, resp>>
     ELSE LET e == DeployError("Hash verification failed", 0) IN
          /\ logs' = [logs EXCEPT ![r] = @ \o
               <<EntryError("File extraction failed", e)>>]
          /\ Fail(r, e)
          /\ UNCHANGED archive
  /\ UNCHANGED <<cfgVars, clock, next_id, fsVars, req, snap, mgr, copy_task,
                 copy_left>>
  /\ UNCHANGED clientVars
  /\ UNCHANGED authVars

IoResults == {"ok", "err"}

\* create_backup up to the spawn of the copy task (copy_existing_deploy)
CreateBackup(r) ==
  /\ pc[r] = "backup"
  /\ steps' = [steps EXCEPT ![r] = @ \o
       (IF deploy_dir.exists THEN <<"backup">>
        ELSE <<"backup", "backup_skipped">>)]
  /\ \E io \in IoResults :
       IF io = "err"
       THEN LET e == FileSystemError("Failed to create backup directory") IN
            /\ logs' = [logs EXCEPT ![r] = @ \o
                 <<EntryError("File extraction failed", e)>>]
            /\ Fail(r, e)
            /\ UNCHANGED <<backup_root, copy_task, seen>>
       ELSE /\ backup_root' = [backup_root EXCEPT !.exists = TRUE]
            /\ seen' = [seen EXCEPT ![r].backup = deploy_dir]
            /\ IF deploy_dir.exists
               THEN /\ copy_task' = [copy_task EXCEPT ![r] = "spawned"]
                    /\ pc' = [pc EXCEPT ![r] = "copy"]
               ELSE /\ pc' = [pc EXCEPT ![r] = "mkdir"]
                    /\ UNCHANGED copy_task
            /\ UNCHANGED <<logs, resp>>
  /\ UNCHANGED <<cfgVars, clock, next_id, deploy_dir, req, archive, snap, mgr,
                 copy_left>>
  /\ UNCHANGED clientVars
  /\ UNCHANGED authVars

SnapshotName(r) == mgr[r].start_time

\* a copy that leaves the target empty
fs_copy_truncating(files, n) == "empty"
\* fs::copy(entry.path(), &target): the target gets the source's content
fs_copy(files, n) == files[n]

\* copy_dir_recursive, first part: create the destination, open the source
CopyTaskStart(r) ==
  /\ copy_task[r] = "spawned"
  /\ backup_root' = [backup_root EXCEPT !.snaps =
       IF SnapshotName(r) \in DOMAIN @ THEN @
       ELSE Put(@, SnapshotName(r), EmptyDir)]
  /\ copy_left' = [copy_left EXCEPT ![r] = DOMAIN deploy_dir.files]
  /\ copy_task' = [copy_task EXCEPT ![r] =
       IF DOMAIN deploy_dir.files = {} THEN "finished" ELSE "running"]
  /\ steps' = [steps EXCEPT ![r] = @ \o <<"copy_start">>]
  /\ UNCHANGED <<cfgVars, clock, next_id, deploy_dir, pc, req, archive, snap, mgr,
                 logs, resp, seen>>
  /\ UNCHANGED clientVars
  /\ UNCHANGED authVars

\* copy_dir_recursive, loop body: copy one entry of the source
CopyTaskFile(r) ==
  /\ copy_task[r] = "running"
  /\ \E n \in copy_left[r], io \in IoResults :
       IF io = "err" \/ n \notin DOMAIN deploy_dir.files
       THEN /\ copy_task' = [copy_task EXCEPT ![r] = "failed"]
            /\ UNCHANGED <<backup_root, copy_left>>
       ELSE /\ backup_root' = [backup_root EXCEPT !.snaps[SnapshotName(r)] =
                 Put(@, n, fs_copy(deploy_dir.files, n))]
            /\ copy_left' = [copy_left EXCEPT ![r] = @ \ {n}]
            /\ copy_task' = [copy_task EXCEPT ![r] =
                 IF copy_left[r] = {n} THEN "finished" ELSE "running"]
  /\ steps' = [steps EXCEPT ![r] = @ \o <<"copy_file">>]
  /\ UNCHANGED <<cfgVars, clock, next_id, deploy_dir, pc, req, archive, snap, mgr,
                 logs, resp, seen>>
  /\ UNCHANGED clientVars
  /\ UNCHANGED authVars

\* copy_directory: the await on the copy task, then the rest of create_backup
AwaitCopy(r) ==
  /\ pc[r] = "copy"
  /\ copy_directory_ready(copy_task[r])
  /\ IF copy_task[r] = "failed"
     THEN LET e == FileSystemError("Directory copy failed") IN
          /\ logs' = [logs EXCEPT ![r] = @ \o
               <<EntryError("File extraction failed", e)>>]
          /\ Fail(r, e)
          /\ UNCHANGED steps
     ELSE /\ pc' = [pc EXCEPT ![r] = "mkdir"]
          /\ steps' = [steps EXCEPT ![r] = @ \o <<"backup_done">>]
          /\ UNCHANGED <<logs, resp>>
  /\ UNCHANGED <<cfgVars, clock, next_id, fsVars, req, archive, snap, mgr, copy_task,
                 copy_left, seen>>
  /\ UNCHANGED clientVars
  /\ UNCHANGED authVars

\* extract_files: ensure_deploy_directory
EnsureDeployDirectory(r) ==
  /\ pc[r] = "mkdir"
  /\ \E io \in IoResults :
       IF io = "err"
       THEN LET e == FileSystemError("Failed to create deploy directory") IN
            /\ logs' = [logs EXCEPT ![r] = @ \o
                 <<EntryError("File extraction failed", e)>>]
            /\ Fail(r, e)
            /\ UNCHANGED <<deploy_dir, steps>>
       ELSE /\ deploy_dir' = [deploy_dir EXCEPT !.exists = TRUE]
            /\ steps' = [steps EXCEPT ![r] = @ \o <<"mkdir">>]
            /\ pc' = [pc EXCEPT ![r] = "unpack"]
            /\ UNCHANGED <<logs, resp>>
  /\ UNCHANGED <<cfgVars, clock, next_id, backup_root, req, archive, snap, mgr,
                 copy_task, copy_left, seen>>
  /\ UNCHANGED clientVars
  /\ UNCHANGED authVars

\* an extraction failure that is only logged
extract_files_failure_logged(e) == FALSE
\* execute_deployment, extract_files arm: Err(e) => return Err(e)
extract_files_aborts(e) == TRUE

\* an unpack into a directory that is emptied first
archive_unpack_emptied(files, archive_data) == Unpacked(archive_data)
\* archive.unpack(&deploy_path): members are written over what is there, and
\* nothing else in the directory is touched
archive_unpack(files, archive_data) == Merge(files, Unpacked(archive_data))

\* extract_files: unpack_archive, then back in execute_deployment
UnpackArchive(r) ==
  /\ pc[r] = "unpack"
  /\ seen' = [seen EXCEPT ![r].unpacked = <<archive[r]>>]
  /\ IF ArchiveCorrupt(archive[r])
     THEN LET e == DeployError("Failed to extract archive", 0) IN
          /\ steps' = [steps EXCEPT ![r] = @ \o <<"unpack">>]
          /\ IF extract_files_aborts(e)
             THEN /\ logs' = [logs EXCEPT ![r] = @ \o
                       <<EntryError("File extraction failed", e)>>]
                  /\ Fail(r, e)
             ELSE /\ logs' = [logs EXCEPT ![r] = @ \o
                       <<EntryError("File extraction failed", e),
                         Entry("info", "Running After-deploy script...")>>]
                  /\ pc' = [pc EXCEPT ![r] = "post_hook"]
                  /\ UNCHANGED resp
          /\ UNCHANGED deploy_dir
     ELSE /\ deploy_dir' = [deploy_dir EXCEPT !.files =
               archive_unpack(@, archive[r])]
          /\ steps' = [steps EXCEPT ![r] = @ \o <<"unpack", "extracted">>]
          /\ logs' = [logs EXCEPT ![r] = @ \o
               <<Entry("info", "Files extracted and deployed successfully"),
                 Entry("info", "Running After-deploy script...")>>]
          /\ pc' = [pc EXCEPT ![r] = "post_hook"]
          /\ UNCHANGED resp
  /\ UNCHANGED <<cfgVars, clock, next_id, backup_root, req, archive, snap, mgr,
                 copy_task, copy_left>>
  /\ UNCHANGED clientVars
  /\ UNCHANGED authVars

\* the transcript once the after-deploy stage is over
Completed(r, lines) ==
  logs[r] \o lines \o
    <<EntryFor("Deployment completed successfully", mgr[r].deploy_id)>>

\* execute_deployment: the after-deploy hook, the terminal line, and the
\* Ok(logs) arm of AdeployService::deploy
PostHook(r) ==
  /\ pc[r] = "post_hook"
  /\ LET script == PackageConfig(r).after_deploy_script
         Succeed(lines) ==
           /\ logs' = [logs EXCEPT ![r] = Completed(r, lines)]
           /\ resp' = [resp EXCEPT ![r] =
                DeployResponse(TRUE, "Deployment completed successfully",
                               mgr[r].deploy_id, Completed(r, lines))]
           /\ pc' = [pc EXCEPT ![r] = "done"]
     IN
     IF script = <<>>
     THEN /\ steps' = [steps EXCEPT ![r] = @ \o <<"post_hook", "complete">>]
          /\ Succeed(<<Entry("info", "After-deploy script succeeded")>>)
          /\ UNCHANGED deploy_dir
     ELSE \E run \in HookRuns :
          LET result == execute_script(run) IN
          /\ deploy_dir' = Touched(deploy_dir, run, PostMarker)
          /\ IF after_deploy_aborts(result)
             THEN /\ steps' = [steps EXCEPT ![r] = @ \o
                       <<"post_hook", "exec_post", ExitStep("post", run.code)>>]
                  /\ logs' = [logs EXCEPT ![r] = @ \o
                       <<EntryError("After-deploy script failed",
                                    result.error)>>]
                  /\ Fail(r, result.error)
             ELSE /\ steps' = [steps EXCEPT ![r] = @ \o
                       <<"post_hook", "exec_post", ExitStep("post", run.code),
                         "complete">>]
                  /\ Succeed(IF result.ok
                             THEN result.lines \o
                                  <<Entry("info",
                                          "After-deploy script succeeded")>>
                             ELSE <<EntryError("After-deploy script failed",
                                               result.error)>>)
  /\ UNCHANGED <<cfgVars, clock, next_id, backup_root, req, archive, snap, mgr,
                 copy_task, copy_left, seen>>
  /\ UNCHANGED clientVars
  /\ UNCHANGED authVars

\* the response has gone back to the client; the task ends
Return(r) ==
  /\ pc[r] = "done"
  /\ copy_task[r] \notin {"spawned", "running"}
  /\ pc' = [pc EXCEPT ![r] = "idle"]
  /\ req' = [req EXCEPT ![r] = NoRequest]
  /\ archive' = [archive EXCEPT ![r] = <<>>]
  /\ snap' = [snap EXCEPT ![r] = NoSnapshot]
  /\ mgr' = [mgr EXCEPT ![r] = NoManager]
  /\ logs' = [logs EXCEPT ![r] = <<>>]
  /\ steps' = [steps EXCEPT ![r] = <<>>]
  /\ resp' = [resp EXCEPT ![r] = NoResponse]
  /\ copy_task' = [copy_task EXCEPT ![r] = "none"]
  /\ copy_left' = [copy_left EXCEPT ![r] = {}]
  /\ seen' = [seen EXCEPT ![r] = NotSeen]
  /\ UNCHANGED <<cfgVars, clock, next_id, fsVars>>
  /\ UNCHANGED clientVars
  /\ UNCHANGED authVars

\* ------------------------------------------------ config watcher (server.rs)
ReloadError == "Failed to reload server config"

\* the operator rewrites the server config file
FileWriteUpTo(content, cap) ==
  /\ mtime < cap
  /\ file' = content
  /\ mtime' = mtime + 1
  /\ warned' = 0
  /\ UNCHANGED <<config, watcher, last_modified, last_error, server, shutdown,
                 message_limit, published, clock, next_id, fsVars, taskVars>>
  /\ UNCHANGED clientVars
  /\ UNCHANGED authVars

\* the operator rewrites the file MaxFileWrites times at most
FileWrite(content) == FileWriteUpTo(content, MaxFileWrites)

\* spawn_config_watcher: the task starts and records the modification time
WatcherStart ==
  /\ watcher = "unspawned"
  /\ watcher' = "polling"
  /\ last_modified' = <<mtime>>
  /\ UNCHANGED <<config, file, mtime, last_error, warned, server, shutdown,
                 message_limit, published, clock, next_id, fsVars, taskVars>>
  /\ UNCHANGED clientVars
  /\ UNCHANGED authVars

\* the select! returns from the sleep and the shutdown flag is still false
WatcherWake ==
  /\ watcher = "polling"
  /\ ~shutdown
  /\ watcher' = "woken"
  /\ UNCHANGED <<config, file, mtime, last_modified, last_error, warned,
                 server, shutdown, message_limit, published, clock, next_id,
                 fsVars, taskVars>>
  /\ UNCHANGED clientVars
  /\ UNCHANGED authVars

\* the watcher sees the shutdown flag set, or the sender gone, and breaks
WatcherStop ==
  /\ watcher = "polling"
  /\ shutdown
  /\ watcher' = "stopped"
  /\ UNCHANGED <<config, file, mtime, last_modified, last_error, warned,
                 server, shutdown, message_limit, published, clock, next_id,
                 fsVars, taskVars>>
  /\ UNCHANGED clientVars
  /\ UNCHANGED authVars

\* a guard that is forgotten, not dropped
WatcherGuard_leaked(value) == value
\* impl Drop for WatcherGuard: self.sender.send(true)
WatcherGuard_drop(value) == TRUE

\* start_server_with_shutdown returns: serve_with_shutdown has ended and the
\* locals, the WatcherGuard among them, are dropped
ServerReturn ==
  /\ server = "serving"
  /\ server' = "returned"
  /\ shutdown' = WatcherGuard_drop(shutdown)
  /\ UNCHANGED <<config, file, mtime, watcher, last_modified, last_error,
                 warned, message_limit, published, clock, next_id, fsVars,
                 taskVars>>
  /\ UNCHANGED clientVars
  /\ UNCHANGED authVars

\* a reload that lets the file's port through
pin_port_ignored(new_config, existing_port) == new_config
\* new_config.server.port = existing_port
pin_port(new_config, existing_port) ==
  [new_config EXCEPT !.server.port = existing_port]

\* a reload that replaces the packages and keeps the old server settings
publish_packages_only(guard, new_config) ==
  [guard EXCEPT !.packages = new_config.packages]
\* *guard = new_config, under the write lock
publish(guard, new_config) == new_config

\* last_error once the metadata of the config file has been read: a
\* successful read clears it
AfterMetadata(error) == <<>>

\* a watcher that marks the file's modification time as seen on a failure
after_failed_reload_advanced(last, modified) == <<modified>>
\* the Err arm of load_server_config: last_modified is not assigned
after_failed_reload(last, modified) == last

\* one turn of the watcher loop after its sleep
WatcherPoll ==
  /\ watcher = "woken"
  /\ watcher' = "polling"
  /\ IF last_modified # <<>> /\ mtime <= last_modified[1]
     THEN /\ last_error' = AfterMetadata(last_error)
          /\ UNCHANGED <<config, last_modified, warned, published>>
     ELSE LET loaded == load_server_config(file) IN
          IF loaded # <<>>
          THEN /\ last_error' = <<>>
               /\ config' = publish(config,
                                     pin_port(loaded[1], config.server.port))
               /\ published' = Append(published, config')
               /\ last_modified' = <<mtime>>
               /\ UNCHANGED warned
          ELSE /\ last_error' = <<ReloadError>>
               /\ warned' = IF /\ AfterMetadata(last_error) # <<ReloadError>>
                               /\ warned < MaxWarnings
                            THEN warned + 1 ELSE warned
               /\ last_modified' = after_failed_reload(last_modified, mtime)
               /\ UNCHANGED <<config, published>>
  /\ UNCHANGED <<file, mtime, server, shutdown, message_limit, clock, next_id,
                 fsVars, taskVars>>
  /\ UNCHANGED clientVars
  /\ UNCHANGED authVars

\* ------------------------------------------------------ client (client.rs)
Host == "127.0.0.1"

\* RemoteConfig entries: port, timeout, Option<u64> max_file_size
RemoteForHost == [port |-> 6060, timeout |-> 30, max_file_size |-> <<1>>]
RemoteDefault == [port |-> 6061, timeout |-> 30, max_file_size |-> <<>>]

\* ClientConfig.remotes: any of the host's entry and the "default" entry
ClientRemotes ==
  {[h \in keys |-> IF h = Host THEN RemoteForHost ELSE RemoteDefault]
     : keys \in SUBSET {Host, "default"}}

\* the source files on the client's disk; any other path does not exist
SourceFiles ==
  [path \in {"dist/app", "dist/tool"} |->
     IF path = "dist/app" THEN <<>> ELSE <<1>>]

\* ClientConfig.packages
ClientPackages ==
  [name \in {"app", "tool", "broken"} |->
     [sources |-> IF name = "app" THEN <<"dist/app">>
                  ELSE IF name = "tool" THEN <<"dist/tool">>
                  ELSE <<"dist/app", "dist/absent">>]]

ClientConfigs ==
  {[packages |-> ClientPackages, remotes |-> remotes]
     : remotes \in ClientRemotes}

RequestedNames == {"app", "tool", "broken", "missing-app"}

\* package_names: None, or Some(names)
PackageNameArgs ==
  {<<>>} \cup {<<names>> : names \in
                 UNION {[1..n -> RequestedNames] : n \in 1..MaxNames}}

\* what the .key directory yields: no usable private key, or a key pair with
\* the text of its .pub file
KeyMaterial ==
  {<<>>,
   <<[keypair |-> "k1", public_key |-> PubKeyString("k1")]>>,
   <<[keypair |-> "k2", public_key |-> <<"k2", LF>>]>>}

\* what client.deploy(request).await returns
Replies ==
  {[transport |-> "ok", code |-> "Ok", success |-> TRUE,
    message |-> "Deployment completed successfully"],
   [transport |-> "ok", code |-> "Ok", success |-> FALSE,
    message |-> "Deployment failed"],
   [transport |-> "error", code |-> "Unauthenticated", success |-> FALSE,
    message |-> "Client public key not allowed"]}

ClientOk == <<[ok |-> TRUE, kind |-> "", message |-> ""]>>
ClientErr(kind, message) ==
  <<[ok |-> FALSE, kind |-> kind, message |-> message]>>

\* a lookup by the host key alone
get_remote_config_exact(remotes, ip) ==
  IF ip \in DOMAIN remotes THEN <<remotes[ip]>> ELSE <<>>
\* remotes.get(ip).or_else(|| remotes.get("default"))
get_remote_config(remotes, ip) ==
  IF ip \in DOMAIN remotes THEN <<remotes[ip]>>
  ELSE IF "default" \in DOMAIN remotes THEN <<remotes["default"]>>
  ELSE <<>>

NoServerConfiguration(host) ==
  "No server configuration found for host: " \o host
FailedToConnect == "Failed to connect: transport error"
FailedToLoadKeyPair == "Failed to load SSH key pair: Failed to read private key"
NoPackagesFound == "No packages found to deploy"

\* a pick that falls back to every declared package when no name matches
packages_to_deploy_or_all(names, packages) ==
  LET matched == SelectSeq(names, LAMBDA name : name \in DOMAIN packages)
      all == CHOOSE q \in [1..Cardinality(DOMAIN packages) -> DOMAIN packages] :
               \A i, j \in DOMAIN q : i < j => q[i] # q[j]
      chosen == IF matched = <<>> THEN all ELSE matched
  IN [i \in 1..Len(chosen) |->
        [name |-> chosen[i], pkg |-> packages[chosen[i]]]]
\* names.into_iter().filter_map(|name| packages.get(&name).map(..)).collect()
RECURSIVE packages_to_deploy(_, _)
packages_to_deploy(names, packages) ==
  IF names = <<>> THEN <<>>
  ELSE LET name == Head(names)
           rest == packages_to_deploy(Tail(names), packages)
       IN IF name \in DOMAIN packages
          THEN <<[name |-> name, pkg |-> packages[name]]>> \o rest
          ELSE rest

\* one tar entry: its header, then the file's bytes
TarEntry(content) == <<0>> \o content

\* the archive of the sources, in order
RECURSIVE Archive(_)
Archive(sources) ==
  IF sources = <<>> THEN <<>>
  ELSE TarEntry(SourceFiles[Head(sources)]) \o Archive(Tail(sources))

\* a packaging that leaves out the sources that do not exist
package_files_skipping_absent(package_name, package_config) ==
  LET present == SelectSeq(package_config.sources,
                           LAMBDA path : path \in DOMAIN SourceFiles)
  IN [ok |-> TRUE, archive_data |-> Archive(present),
      file_hash |-> Sha256Hex(Archive(present))]
\* DeployManager::package_files: Ok((archive, hash)), or the Err for the
\* first source path that does not exist
package_files(package_name, package_config) ==
  LET sources == package_config.sources
      absent == {i \in 1..Len(sources) : sources[i] \notin DOMAIN SourceFiles}
  IN IF absent # {}
     THEN LET i == CHOOSE k \in absent : \A m \in absent : k <= m IN
          [ok |-> FALSE,
           error |-> ClientErr("FileSystem",
                               "Source path '" \o sources[i]
                                 \o "' does not exist")]
     ELSE [ok |-> TRUE, archive_data |-> Archive(sources),
           file_hash |-> Sha256Hex(Archive(sources))]

\* a client that stops on a transport status only
deploy_outcome_transport_only(package_name, reply) ==
  IF reply.transport = "error"
  THEN ClientErr("Grpc", reply.message)
  ELSE <<>>
\* what one reply makes deploy_packages return, if anything
deploy_outcome(package_name, reply) ==
  IF reply.transport = "error"
  THEN ClientErr("Grpc", reply.message)
  ELSE IF ~reply.success
  THEN ClientErr("Deploy", "Package " \o package_name
                             \o " deployment failed: " \o reply.message)
  ELSE <<>>

\* deploy_packages is called and resolves the remote entry for the host
Invoke(host, client_config, package_names) ==
  /\ cl_pc = "idle"
  /\ cl_in' = [host |-> host, config |-> client_config,
               package_names |-> package_names]
  /\ LET server_config == get_remote_config(client_config.remotes, host) IN
     IF server_config = <<>>
     THEN /\ cl_result' = ClientErr("Config", NoServerConfiguration(host))
          /\ cl_pc' = "returned"
          /\ UNCHANGED cl_remote
     ELSE /\ cl_remote' = server_config
          /\ cl_pc' = "connecting"
          /\ UNCHANGED cl_result
  /\ UNCHANGED <<cl_channel, cl_keys, cl_queue, cl_sent, cl_replies>>
  /\ UNCHANGED serverVars
  /\ UNCHANGED authVars

\* Channel::from_shared(endpoint).connect().await
Connect(connected) ==
  /\ cl_pc = "connecting"
  /\ IF connected
     THEN /\ cl_channel' = cl_channel + 1
          /\ cl_pc' = "connected"
          /\ UNCHANGED cl_result
     ELSE /\ cl_result' = ClientErr("Network", FailedToConnect)
          /\ cl_pc' = "returned"
          /\ UNCHANGED cl_channel
  /\ UNCHANGED <<cl_in, cl_remote, cl_keys, cl_queue, cl_sent, cl_replies>>
  /\ UNCHANGED serverVars
  /\ UNCHANGED authVars

\* the key pair is loaded, then the packages to deploy are picked
LoadKeysAndPick(material) ==
  /\ cl_pc = "connected"
  /\ IF material = <<>>
     THEN /\ cl_result' = ClientErr("Auth", FailedToLoadKeyPair)
          /\ cl_pc' = "returned"
          /\ UNCHANGED <<cl_keys, cl_queue>>
     ELSE /\ cl_keys' = material
          /\ LET picked ==
                   IF cl_in.package_names = <<>> THEN <<>>
                   ELSE packages_to_deploy(cl_in.package_names[1],
                                           cl_in.config.packages)
             IN IF picked = <<>>
                THEN /\ cl_result' = ClientErr("Config", NoPackagesFound)
                     /\ cl_pc' = "returned"
                     /\ UNCHANGED cl_queue
                ELSE /\ cl_queue' = picked
                     /\ cl_pc' = "packaging"
                     /\ UNCHANGED cl_result
  /\ UNCHANGED <<cl_in, cl_remote, cl_channel, cl_sent, cl_replies>>
  /\ UNCHANGED serverVars
  /\ UNCHANGED authVars

\* one turn of the loop up to client.deploy(request): package, sign, send
SendNext ==
  /\ cl_pc = "packaging"
  /\ LET package_name == Head(cl_queue).name
         packed == package_files(package_name, Head(cl_queue).pkg)
     IN IF ~packed.ok
        THEN /\ cl_result' = packed.error
             /\ cl_pc' = "returned"
             /\ UNCHANGED cl_sent
        ELSE /\ cl_sent' =
                  Append(cl_sent,
                         [package_name |-> package_name,
                          file_data |-> packed.archive_data,
                          file_hash |-> packed.file_hash,
                          signature |->
                            EncodeSignature(sign_data(cl_keys[1].keypair,
                                                      packed.archive_data)),
                          public_key |-> cl_keys[1].public_key])
             /\ cl_pc' = "awaiting"
             /\ UNCHANGED cl_result
  /\ UNCHANGED <<cl_in, cl_remote, cl_channel, cl_keys, cl_queue, cl_replies>>
  /\ UNCHANGED serverVars
  /\ UNCHANGED authVars

\* client.deploy(request).await returns, and the loop goes on or returns
Receive(reply) ==
  /\ cl_pc = "awaiting"
  /\ cl_replies' = Append(cl_replies, reply)
  /\ LET error == deploy_outcome(Head(cl_queue).name, reply) IN
     IF error # <<>>
     THEN /\ cl_result' = error
          /\ cl_pc' = "returned"
          /\ UNCHANGED cl_queue
     ELSE /\ cl_queue' = Tail(cl_queue)
          /\ IF cl_queue' = <<>>
             THEN cl_result' = ClientOk /\ cl_pc' = "returned"
             ELSE cl_pc' = "packaging" /\ UNCHANGED cl_result
  /\ UNCHANGED <<cl_in, cl_remote, cl_channel, cl_keys, cl_sent>>
  /\ UNCHANGED serverVars
  /\ UNCHANGED authVars

\* ------------------------------------------- Auth called directly (auth.rs)
\* 64 zero bytes: a signature no key pair produced
ZeroSignature == [signer |-> "", msg |-> <<>>, len |-> SignatureLen]

\* Auth::with_key_pair(k).sign_data(data)
AuthSign(k, data) ==
  /\ au_signed = <<>>
  /\ au_signed' = <<[keypair |-> k, data |-> data,
                     signature |-> sign_data(k, data)]>>
  /\ UNCHANGED au_verified
  /\ UNCHANGED <<serverVars, clientVars>>

\* Auth::verify_signature(public_key_str, data, signature_bytes)
AuthVerify(public_key_str, data, signature_bytes) ==
  /\ au_signed # <<>>
  /\ au_verified = <<>>
  /\ au_verified' =
       <<[public_key_str |-> public_key_str, data |-> data,
          signature_bytes |-> signature_bytes,
          result |-> verify_signature(public_key_str, data, signature_bytes)]>>
  /\ UNCHANGED au_signed
  /\ UNCHANGED <<serverVars, clientVars>>

\* -------------------------------------------------------- specifications
Serial == {1}        \* one request task at a time

\* requests signed by the holder of a key over the bytes they carry
SignedRequests ==
  UNION {
    [package_name : PackageNames,
     file_data : {d},
     file_hash : {Sha256Hex(d), Sha256Hex(Flip(d, 1))},
     signature : {EncodeSignature(sign_data(k, d))},
     public_key : {PubKeyString(k)}]
    : d \in Bytes, k \in Keys }

\* the server with its watcher, serving signed requests one after another
Next ==
  \/ \E r \in Serial, q \in SignedRequests : deploy(r, q)
  \/ \E r \in Serial : PreHook(r)
  \/ \E r \in Serial : VerifyHash(r)
  \/ \E r \in Serial : CreateBackup(r)
  \/ \E r \in Serial : CopyTaskStart(r)
  \/ \E r \in Serial : CopyTaskFile(r)
  \/ \E r \in Serial : AwaitCopy(r)
  \/ \E r \in Serial : EnsureDeployDirectory(r)
  \/ \E r \in Serial : UnpackArchive(r)
  \/ \E r \in Serial : PostHook(r)
  \/ \E r \in Serial : Return(r)
  \/ \E content \in FileContents : FileWrite(content)
  \/ WatcherStart
  \/ WatcherWake
  \/ WatcherPoll

Spec == Init /\ [][Next]_vars

\* one request of any shape, against the startup config
GateNext ==
  \/ \E r \in Serial, q \in DeployRequests : deploy(r, q)
  \/ \E r \in Serial : PreHook(r)
  \/ \E r \in Serial : VerifyHash(r)
  \/ \E r \in Serial : CreateBackup(r)
  \/ \E r \in Serial : CopyTaskStart(r)
  \/ \E r \in Serial : CopyTaskFile(r)
  \/ \E r \in Serial : AwaitCopy(r)
  \/ \E r \in Serial : EnsureDeployDirectory(r)
  \/ \E r \in Serial : UnpackArchive(r)
  \/ \E r \in Serial : PostHook(r)

GateSpec == Init /\ [][GateNext]_vars

\* one invocation of the client
ClientNext ==
  \/ \E client_config \in ClientConfigs, package_names \in PackageNameArgs :
       Invoke(Host, client_config, package_names)
  \/ \E connected \in BOOLEAN : Connect(connected)
  \/ \E material \in KeyMaterial : LoadKeysAndPick(material)
  \/ SendNext
  \/ \E reply \in Replies : Receive(reply)

\* requests for the one package, built as the client builds them over a
\* well-formed archive by the holder of an allowed key
ConcurrentRequests ==
  {q \in SignedRequests :
     /\ q.package_name = "app"
     /\ q.file_hash = Sha256Hex(q.file_data)
     /\ ~ArchiveCorrupt(q.file_data)
     /\ q.public_key = PubKeyString("k1")}

\* the runtime dispatches each request on its own task: one request per
\* task, the tasks taken in slot order and their steps interleaved
ConcurrentNext ==
  \/ \E r \in Slots, q \in ConcurrentRequests :
       /\ \A earlier \in Slots : earlier < r => pc[earlier] # "idle"
       /\ deploy_upto(r, q, Cardinality(Slots))
  \/ \E r \in Slots : PreHook(r)
  \/ \E r \in Slots : VerifyHash(r)
  \/ \E r \in Slots : CreateBackup(r)
  \/ \E r \in Slots : CopyTaskStart(r)
  \/ \E r \in Slots : CopyTaskFile(r)
  \/ \E r \in Slots : AwaitCopy(r)
  \/ \E r \in Slots : EnsureDeployDirectory(r)
  \/ \E r \in Slots : UnpackArchive(r)
  \/ \E r \in Slots : PostHook(r)

ConcurrentSpec == Init /\ [][ConcurrentNext]_vars

ClientSpec == Init /\ [][ClientNext]_vars

\* Auth::sign_data and Auth::verify_signature applied to chosen arguments
AuthNext ==
  \/ \E k \in Keys, data \in Bytes : AuthSign(k, data)
  \/ /\ au_signed # <<>>
     /\ \E public_key_str \in PublicKeyStrings,
           data \in NearBytes(au_signed[1].data),
           signature_bytes \in {au_signed[1].signature, ZeroSignature,
                                Truncated(au_signed[1].signature)} :
          AuthVerify(public_key_str, data, signature_bytes)

AuthSpec == Init /\ [][AuthNext]_vars

\* the config watcher from the start of the server to its return, with room
\* for a rewrite that does not parse and a later one that does
WatcherNext ==
  \/ \E content \in FileContents : FileWriteUpTo(content, MaxFileWrites + 1)
  \/ WatcherStart
  \/ WatcherWake
  \/ WatcherPoll
  \/ WatcherStop
  \/ ServerReturn

WatcherSpec == Init /\ [][WatcherNext]_vars

\* the watcher task is scheduled by the runtime whenever it can run
WatcherLive ==
  /\ WatcherSpec
  /\ WF_vars(WatcherStart)
  /\ WF_vars(WatcherWake)
  /\ WF_vars(WatcherPoll)
  /\ WF_vars(WatcherStop)

\* ======================================================== properties
Has(seq, x) == \E i \in 1..Len(seq) : seq[i] = x

\* the steps of the engine: hooks, backup, deploy directory, extraction
EngineSteps ==
  {"pre_hook", "exec_pre", "pre_exit_zero", "pre_exit_nonzero", "hash_check",
   "backup", "backup_skipped", "copy_start", "copy_file", "backup_done",
   "mkdir", "unpack", "extracted", "post_hook", "exec_post", "post_exit_zero",
   "post_exit_nonzero", "complete"}
EngineWork(r) == \E i \in 1..Len(steps[r]) : steps[r][i] \in EngineSteps

\* the request's key is, byte for byte, an entry of the snapshot's allow-list
OnAllowList(r) == req[r].public_key \in snap[r].allowed_keys

\* the signature field holds the 64 bytes that the key pair named by the
\* request's public key produces over the request's file_data
SignatureVerifies(r) ==
  /\ req[r].signature.wellformed
  /\ req[r].signature.raw.len = SignatureLen
  /\ req[r].signature.raw.msg = req[r].file_data
  /\ req[r].signature.raw.signer \in Keys
  /\ Trim(req[r].public_key) = PubKeyString(req[r].signature.raw.signer)

\* the filesystem as the server found it, and no copy task
NoEngineEffect(r) ==
  /\ ~EngineWork(r)
  /\ copy_task[r] = "none"
  /\ backup_root = [exists |-> FALSE, snaps |-> <<>>]
  /\ DOMAIN deploy_dir.files \subseteq {BackupTxt}

\* C1: engine work happens for a request only if its public key is on the
\* allow-list of the snapshot taken for it and its signature verifies over
\* its file_data under that key.
C1_EngineOnlyIfListedAndSigned ==
  \A r \in Slots : EngineWork(r) => OnAllowList(r) /\ SignatureVerifies(r)

C1_Witness ==
  \E r \in Slots :
    Has(steps[r], "extracted") /\ OnAllowList(r) /\ SignatureVerifies(r)

\* C2 as stated: every request whose public key is not a byte-exact member of
\* allowed_keys is answered Unauthenticated, "Client public key not allowed",
\* with no engine side effect.
C2_UnlistedKeyUnauthenticated ==
  \A r \in Slots :
    (pc[r] = "done" /\ req[r].public_key \notin config.server.allowed_keys)
      => /\ resp[r].transport = "error"
         /\ resp[r].code = "Unauthenticated"
         /\ resp[r].message = "Client public key not allowed"
         /\ NoEngineEffect(r)

\* C2 amended: a request whose public key is not a byte-exact member of
\* allowed_keys is answered Unauthenticated, "Client public key not allowed",
\* when its signature field is valid base64, and InvalidArgument when it is
\* not; either way there is no engine side effect.
C2_UnlistedKeyRejected ==
  \A r \in Slots :
    (pc[r] = "done" /\ req[r].public_key \notin config.server.allowed_keys)
      => /\ resp[r].transport = "error"
         /\ IF req[r].signature.wellformed
            THEN /\ resp[r].code = "Unauthenticated"
                 /\ resp[r].message = "Client public key not allowed"
            ELSE resp[r].code = "InvalidArgument"
         /\ NoEngineEffect(r)

C2_Witness ==
  \E r \in Slots :
    /\ pc[r] = "done"
    /\ req[r].public_key = <<"k1", LF>>
    /\ PubKeyString("k1") \in config.server.allowed_keys
    /\ SignatureVerifies(r)
    /\ resp[r].code = "Unauthenticated"
    /\ resp[r].message = "Client public key not allowed"

\* C3: a request whose signature field is not valid base64 is answered
\* InvalidArgument, "Invalid signature", whatever else it carries, and no
\* other step of the pipeline runs for it.
C3_MalformedSignatureInvalidArgument ==
  \A r \in Slots :
    (pc[r] # "idle" /\ ~req[r].signature.wellformed)
      => /\ pc[r] = "done"
         /\ resp[r].transport = "error"
         /\ resp[r].code = "InvalidArgument"
         /\ resp[r].message = "Invalid signature"
         /\ steps[r] = <<"decode">>
         /\ snap[r] = NoSnapshot
         /\ mgr[r] = NoManager
         /\ NoEngineEffect(r)

C3_Witness ==
  \E r \in Slots :
    /\ pc[r] = "done"
    /\ ~req[r].signature.wellformed
    /\ req[r].public_key \in config.server.allowed_keys
    /\ req[r].package_name \in DOMAIN config.packages
    /\ resp[r].code = "InvalidArgument"

\* a request a client built over an archive A (hash of A, signature of its
\* own key over A, its own public key) whose file_data then had one bit
\* flipped
Tampered(q) ==
  /\ q.signature.wellformed
  /\ q.signature.raw.len = SignatureLen
  /\ q.signature.raw.msg # q.file_data
  /\ q.signature.raw.msg \in NearBytes(q.file_data)
  /\ q.file_hash = Sha256Hex(q.signature.raw.msg)
  /\ q.public_key = PubKeyString(q.signature.raw.signer)

\* C5 as stated: a request altered in one bit of file_data after signing
\* ends in the in-band failure of the hash check, before any hook or
\* extraction.
C5_TamperedFailsHashCheck ==
  \A r \in Slots :
    (pc[r] = "done" /\ Tampered(req[r]))
      => /\ resp[r].transport = "ok"
         /\ ~resp[r].success
         /\ resp[r].message = "Hash verification failed"
         /\ ~Has(steps[r], "exec_pre")
         /\ ~Has(steps[r], "unpack")

\* C5 amended: a request altered in one bit of file_data after signing is
\* rejected at the transport level with Unauthenticated (its signature no
\* longer verifies: "Invalid Ed25519 signature" when the key is on the
\* allow-list), and no hash check, hook, backup or extraction runs.
C5_TamperedUnauthenticated ==
  \A r \in Slots :
    (pc[r] # "idle" /\ Tampered(req[r]))
      => /\ pc[r] = "done"
         /\ resp[r].transport = "error"
         /\ resp[r].code = "Unauthenticated"
         /\ (OnAllowList(r) => resp[r].message = "Invalid Ed25519 signature")
         /\ NoEngineEffect(r)

C5_Witness ==
  \E r \in Slots :
    /\ pc[r] = "done"
    /\ Tampered(req[r])
    /\ OnAllowList(r)
    /\ req[r].package_name \in DOMAIN config.packages
    /\ resp[r].message = "Invalid Ed25519 signature"

\* the request has been handed to the engine: its deploy id is minted
EngineEntered(r) == mgr[r].deploy_id # 0

HashMismatch(r) == req[r].file_hash # Sha256Hex(req[r].file_data)

ErrorLines(lines) ==
  SelectSeq(lines, LAMBDA entry : entry.level = "error")

\* C4 as stated: a deploy that reaches the engine with a file_hash different
\* from the recomputed SHA-256 of its archive bytes never has its pre-hook
\* command executed.
C4_HashMismatchSkipsPreHook ==
  \A r \in Slots :
    (EngineEntered(r) /\ HashMismatch(r)) => ~Has(steps[r], "exec_pre")

\* C6 as stated: an authenticated request for a configured package, handed
\* to the engine with a file_hash that differs from the recomputed hash,
\* completes in-band with success=false, its first error-level transcript
\* line mentions "Hash verification failed", no backup snapshot is created
\* and nothing is extracted.
C6_HashMismatchResponse ==
  \A r \in Slots :
    (pc[r] = "done" /\ EngineEntered(r) /\ HashMismatch(r))
      => /\ resp[r].transport = "ok"
         /\ ~resp[r].success
         /\ Len(ErrorLines(resp[r].logs)) > 0
         /\ ErrorLines(resp[r].logs)[1].cause = "Hash verification failed"
         /\ ~Has(steps[r], "backup")
         /\ ~Has(steps[r], "unpack")

PreHookFailed(r) == Has(steps[r], "pre_exit_nonzero")
PostHookFailed(r) == Has(steps[r], "post_exit_nonzero")

\* C7: a deploy whose pre-hook exits non-zero is aborted: no backup
\* snapshot, no extraction, no post-hook, and an in-band success=false
\* response with an error that cites the exit code.
C7_PreHookFailureAborts ==
  \A r \in Slots :
    PreHookFailed(r)
      => /\ pc[r] = "done"
         /\ resp[r].transport = "ok"
         /\ ~resp[r].success
         /\ resp[r].deploy_id = mgr[r].deploy_id
         /\ \E i \in 1..Len(resp[r].logs) :
              /\ resp[r].logs[i].level = "error"
              /\ resp[r].logs[i].cause = "Script execution failed with exit code"
              /\ resp[r].logs[i].code # 0
         /\ \A i \in 1..Len(steps[r]) :
              steps[r][i] \notin
                {"backup", "copy_start", "copy_file", "backup_done", "mkdir",
                 "unpack", "extracted", "post_hook", "exec_post", "complete"}
         /\ copy_task[r] = "none"

C7_Witness ==
  \E r \in Slots :
    /\ PreHookFailed(r)
    /\ pc[r] = "done"
    /\ ~HashMismatch(r)
    /\ PackageConfig(r).backup_enabled
    /\ ~resp[r].success

\* C8: a deploy whose extraction succeeded and whose post-hook exits
\* non-zero answers success=true, the archive's files are in the deploy
\* directory, the transcript has an error-level line citing the post-hook,
\* and the terminal completion line is still emitted.
C8_PostHookFailureStillSucceeds ==
  \A r \in Slots :
    (Has(steps[r], "extracted") /\ PostHookFailed(r))
      => /\ pc[r] = "done"
         /\ resp[r].transport = "ok"
         /\ resp[r].success
         /\ \A i \in ArchiveMembers(req[r].file_data) :
              /\ i \in DOMAIN deploy_dir.files
              /\ deploy_dir.files[i] = ArchiveContent(req[r].file_data, i)
         /\ \E i \in 1..Len(resp[r].logs) :
              /\ resp[r].logs[i].level = "error"
              /\ resp[r].logs[i].text = "After-deploy script failed"
         /\ resp[r].logs[Len(resp[r].logs)] =
              EntryFor("Deployment completed successfully", mgr[r].deploy_id)

C8_Witness ==
  \E r \in Slots :
    /\ Has(steps[r], "extracted")
    /\ PostHookFailed(r)
    /\ ArchiveMembers(req[r].file_data) # {}
    /\ resp[r].success

\* the place of a step in the stage order of the specification's engine
StageRank(step) ==
  CASE step = "hash_check" -> 1
    [] step \in {"pre_hook", "exec_pre", "pre_exit_zero", "pre_exit_nonzero"}
         -> 2
    [] step \in {"backup", "backup_skipped", "copy_start", "copy_file",
                 "backup_done"} -> 3
    [] step \in {"mkdir", "unpack", "extracted"} -> 4
    [] step \in {"post_hook", "exec_post", "post_exit_zero",
                 "post_exit_nonzero"} -> 5
    [] step = "complete" -> 6
    [] OTHER -> 0

StageMarkers ==
  {"hash_check", "pre_hook", "backup", "mkdir", "unpack", "post_hook",
   "complete"}

\* C9 as stated: within one deploy the stages run in the order hash check,
\* pre-hook, backup, extraction, post-hook, completion, none repeated, and
\* the returned transcript opens with the opening line and ends with the
\* terminal completion line.
C9_StageOrder ==
  \A r \in Slots :
    /\ \A i, j \in 1..Len(steps[r]) :
         i < j => StageRank(steps[r][i]) <= StageRank(steps[r][j])
    /\ \A i, j \in 1..Len(steps[r]) :
         (i # j /\ steps[r][i] \in StageMarkers) => steps[r][i] # steps[r][j]
    /\ (pc[r] = "done" /\ resp[r].success)
         => /\ resp[r].logs[1] =
                 EntryFor("Starting deployment execution", mgr[r].deploy_id)
            /\ resp[r].logs[Len(resp[r].logs)] =
                 EntryFor("Deployment completed successfully",
                          mgr[r].deploy_id)

\* C10: in a deploy with backup enabled, the copy of the deploy directory
\* into the snapshot has run to completion (or the deploy has failed) before
\* that deploy creates the deploy directory or extracts into it.
C10_BackupCompleteBeforeExtraction ==
  \A r \in Slots :
    (EngineEntered(r) /\ PackageConfig(r).backup_enabled)
      => /\ \A i, j \in 1..Len(steps[r]) :
              (steps[r][i] \in {"mkdir", "unpack", "extracted"}
                 /\ steps[r][j] \in {"backup", "copy_start", "copy_file"})
                => j < i
         /\ (Has(steps[r], "mkdir") \/ Has(steps[r], "unpack"))
              => /\ Has(steps[r], "backup")
                 /\ copy_task[r] \in {"none", "finished"}
                 /\ copy_task[r] = "finished" => copy_left[r] = {}

C10_Witness ==
  \E r \in Slots :
    /\ Has(steps[r], "copy_file")
    /\ Has(steps[r], "extracted")
    /\ PackageConfig(r).backup_enabled
    /\ ArchiveMembers(req[r].file_data) # {}
    /\ SnapshotName(r) \in DOMAIN backup_root.snaps
    /\ BackupTxt \in DOMAIN backup_root.snaps[SnapshotName(r)]

\* the deploy took its backup: the snapshot copy was awaited to its end
BackupTaken(r) == Has(steps[r], "backup_done")
\* the deploy found no deploy directory at its backup stage
BackupSkipped(r) ==
  Has(steps[r], "backup_skipped") /\ Has(steps[r], "mkdir")

\* the snapshot directory named after the deploy's start time holds every
\* entry of dir, with the same content
SnapshotHolds(r, dir) ==
  /\ SnapshotName(r) \in DOMAIN backup_root.snaps
  /\ \A n \in DOMAIN dir.files :
       /\ n \in DOMAIN backup_root.snaps[SnapshotName(r)]
       /\ backup_root.snaps[SnapshotName(r)][n] = dir.files[n]

\* C11 as stated: a deploy with backup enabled that has been through its
\* backup stage has a snapshot directory named after its start time whose
\* contents equal the contents the deploy directory had when the deploy
\* began, before its pre-hook ran.
C11_SnapshotEqualsEntryContents ==
  \A r \in Slots :
    (EngineEntered(r) /\ PackageConfig(r).backup_enabled
       /\ (BackupTaken(r) \/ BackupSkipped(r)))
      => /\ SnapshotName(r) \in DOMAIN backup_root.snaps
         /\ backup_root.snaps[SnapshotName(r)] = seen[r].entry.files

\* C11: a deploy with backup enabled whose backup stage succeeded has, if the
\* deploy directory existed at that stage, a snapshot directory named after
\* its start time that holds every entry the deploy directory had when the
\* backup stage began: the entries it had on entry plus the marker of the
\* pre-hook that ran before the backup. If the deploy directory did not
\* exist, no snapshot directory is made.
C11_SnapshotHoldsBackupStageContents ==
  \A r \in Slots :
    (EngineEntered(r) /\ PackageConfig(r).backup_enabled)
      => /\ BackupTaken(r)
              => /\ seen[r].backup.exists
                 /\ SnapshotHolds(r, seen[r].backup)
                 /\ \A n \in DOMAIN seen[r].entry.files :
                      /\ n \in DOMAIN seen[r].backup.files
                      /\ seen[r].backup.files[n] = seen[r].entry.files[n]
                 /\ DOMAIN seen[r].backup.files
                      \subseteq DOMAIN seen[r].entry.files \cup {PreMarker}
                 /\ Has(steps[r], "pre_exit_zero")
                      => PreMarker \in
                           DOMAIN backup_root.snaps[SnapshotName(r)]
         /\ BackupSkipped(r)
              => /\ ~seen[r].backup.exists
                 /\ SnapshotName(r) \notin DOMAIN backup_root.snaps

C11_Witness ==
  \E r \in Slots :
    /\ BackupTaken(r)
    /\ PackageConfig(r).backup_enabled
    /\ PreMarker \notin DOMAIN seen[r].entry.files
    /\ BackupTxt \in DOMAIN seen[r].entry.files
    /\ PreMarker \in DOMAIN backup_root.snaps[SnapshotName(r)]
    /\ backup_root.snaps[SnapshotName(r)][BackupTxt] = "old"

BackupSteps == {"backup", "backup_skipped", "copy_start", "copy_file",
                "backup_done"}

\* every hook the package configures has been executed
HooksRan(r) ==
  /\ PackageConfig(r).before_deploy_script # <<>> => Has(steps[r], "exec_pre")
  /\ PackageConfig(r).after_deploy_script # <<>> => Has(steps[r], "exec_post")

\* the archive's members are in the deploy directory
Extracted(r) ==
  /\ Has(steps[r], "extracted")
  /\ deploy_dir.exists
  /\ \A i \in ArchiveMembers(req[r].file_data) :
       /\ i \in DOMAIN deploy_dir.files
       /\ deploy_dir.files[i] = ArchiveContent(req[r].file_data, i)

\* C12: while a deploy of a package with backup_enabled = false is in the
\* engine, the backup root is neither created nor modified and no snapshot
\* copy is started; the deploy runs no backup step, and when it succeeds its
\* configured hooks have been executed and its archive is extracted.
C12_BackupDisabledLeavesBackupRoot ==
  /\ [](\A r \in Slots :
         (EngineEntered(r) /\ ~PackageConfig(r).backup_enabled)
           => /\ \A i \in 1..Len(steps[r]) : steps[r][i] \notin BackupSteps
              /\ copy_task[r] = "none"
              /\ (pc[r] = "done" /\ resp[r].success)
                   => (HooksRan(r) /\ Extracted(r)))
  /\ [][\A r \in Slots :
         (EngineEntered(r) /\ ~PackageConfig(r).backup_enabled)
           => backup_root' = backup_root]_vars

C12_Witness ==
  \E r \in Slots :
    /\ pc[r] = "done"
    /\ EngineEntered(r)
    /\ ~PackageConfig(r).backup_enabled
    /\ resp[r].success
    /\ Has(steps[r], "exec_post")
    /\ Extracted(r)
    /\ ArchiveMembers(req[r].file_data) # {}
    /\ ~backup_root.exists
    /\ BackupTxt \in DOMAIN deploy_dir.files

\* the deploy's extraction failed: the deploy directory could not be
\* created, or the archive could not be unpacked
ExtractionFailed(r) ==
  /\ Has(steps[r], "hash_check")
  /\ ~Has(steps[r], "extracted")
  /\ \/ Has(steps[r], "unpack")
     \/ (pc[r] = "done" /\ resp[r].message = "Failed to create deploy directory")

\* C13: a deploy whose extraction fails after it took a backup snapshot ends
\* with an in-band success=false response, runs no post-hook, and leaves the
\* snapshot in place holding what the backup stage copied; the failing step
\* does not touch the backup root.
C13_ExtractionFailureKeepsSnapshot ==
  /\ [](\A r \in Slots :
         (ExtractionFailed(r) /\ BackupTaken(r))
           => /\ pc[r] = "done"
              /\ resp[r].transport = "ok"
              /\ ~resp[r].success
              /\ resp[r].deploy_id = mgr[r].deploy_id
              /\ \A i \in 1..Len(steps[r]) :
                   steps[r][i] \notin
                     {"post_hook", "exec_post", "post_exit_zero",
                      "post_exit_nonzero", "complete"}
              /\ SnapshotHolds(r, seen[r].backup)
              /\ DOMAIN backup_root.snaps[SnapshotName(r)]
                   = DOMAIN seen[r].backup.files)
  /\ [][\A r \in Slots :
         (pc[r] \in {"mkdir", "unpack"} /\ pc'[r] = "done")
           => backup_root' = backup_root]_vars

C13_Witness ==
  \E r \in Slots :
    /\ BackupTaken(r)
    /\ ExtractionFailed(r)
    /\ Has(steps[r], "unpack")
    /\ ArchiveCorrupt(req[r].file_data)
    /\ pc[r] = "done"
    /\ BackupTxt \in DOMAIN backup_root.snaps[SnapshotName(r)]

\* the request got through the AuthGate: its key is listed and its
\* signature verified, so the handler went on to the package lookup
PassedAuthGate(r) == Has(steps[r], "lookup")

Oversize(r) ==
  /\ snap[r].max_file_size > 0
  /\ Len(req[r].file_data) > snap[r].max_file_size

\* C14 as stated: a request that passed the AuthGate and whose file_data is
\* longer than a positive max_file_size is rejected with ResourceExhausted,
\* whether or not its package is configured, and nothing of the engine runs.
C14_OversizeResourceExhausted ==
  \A r \in Slots :
    (PassedAuthGate(r) /\ Oversize(r))
      => /\ resp[r].transport = "error"
         /\ resp[r].code = "ResourceExhausted"
         /\ NoEngineEffect(r)

\* C15: an authenticated request within the size limit that names a package
\* absent from the config snapshot is rejected with NotFound and the message
\* "Package '<name>' not configured"; no deploy id is minted, nothing of the
\* engine runs and the deploy directory is as it was.
C15_MissingPackageNotFound ==
  \A r \in Slots :
    (PassedAuthGate(r) /\ ~Oversize(r)
       /\ req[r].package_name \notin DOMAIN config.packages)
      => /\ pc[r] = "done"
         /\ resp[r].transport = "error"
         /\ resp[r].code = "NotFound"
         /\ resp[r].message = NotConfigured(req[r].package_name)
         /\ ~EngineEntered(r)
         /\ next_id = 0
         /\ NoEngineEffect(r)
         /\ \E d \in {NoDir, [exists |-> TRUE,
                                files |-> Put(EmptyDir, BackupTxt, "old")]} :
              deploy_dir = d

C15_Witness ==
  \E r \in Slots :
    /\ PassedAuthGate(r)
    /\ ~Oversize(r)
    /\ req[r].package_name = "ghost"
    /\ resp[r].message = "Package 'ghost' not configured"
    /\ deploy_dir.exists

\* the error the engine stopped on: the cause of the last line of the
\* transcript execute_deployment had built when it returned Err
EngineError(r) == logs[r][Len(logs[r])]

\* C16: a request handed to the engine is always answered by a normally
\* completed RPC carrying that deploy's id, and when the engine failed the
\* response has success=false and the error's text as its message; a
\* transport-level error status is returned only to requests that never
\* entered the engine.
C16_EngineFailuresInBand ==
  \A r \in Slots :
    pc[r] = "done"
      => /\ EngineEntered(r)
              => /\ resp[r].transport = "ok"
                 /\ resp[r].deploy_id = mgr[r].deploy_id
                 /\ ~Has(steps[r], "complete")
                      => /\ ~resp[r].success
                         /\ EngineError(r).level = "error"
                         /\ resp[r].message = EngineError(r).cause
         /\ resp[r].transport = "error"
              => (~EngineEntered(r) /\ ~EngineWork(r))
         /\ ~EngineEntered(r) => resp[r].transport = "error"

C16_Witness ==
  \E r \in Slots :
    /\ pc[r] = "done"
    /\ EngineEntered(r)
    /\ Has(steps[r], "copy_file")
    /\ resp[r].transport = "ok"
    /\ ~resp[r].success
    /\ resp[r].message = "Directory copy failed"
    /\ resp[r].deploy_id = mgr[r].deploy_id

\* is p a prefix of s
IsPrefix(p, s) ==
  /\ Len(p) <= Len(s)
  /\ \A i \in 1..Len(p) : s[i] = p[i]

\* C17 as stated: when the engine fails, the transcript of the
\* success=false response is the whole transcript accumulated up to the
\* failure: the opening line, the lines of the stages that ran, the failing
\* hook's captured output and the error line naming the failing stage.
C17_FailureTranscriptIsFull ==
  \A r \in Slots :
    (pc[r] = "done" /\ EngineEntered(r) /\ ~resp[r].success)
      => /\ IsPrefix(logs[r], resp[r].logs)
         /\ resp[r].logs[1] =
              EntryFor("Starting deployment execution", mgr[r].deploy_id)
         /\ Has(steps[r], "pre_exit_nonzero")
              => \E i \in 1..Len(resp[r].logs) :
                   resp[r].logs[i] = Entry("info", "STDERR: hook failed")

\* the deploy ids that the lines of a transcript carry
IdsIn(lines) == {lines[i].id : i \in 1..Len(lines)} \ {0}

\* C18 as stated: every deploy in the engine has an id minted before its
\* first stage and distinct from every other deploy's, and when the deploy
\* is answered, on the success path and on every failure path, the
\* transcript of its response carries that id and no other.
C18_DeployIdInOwnTranscript ==
  \A r \in Slots :
    EngineEntered(r)
      => /\ Has(steps[r], "mint")
         /\ mgr[r].deploy_id = next_id
         /\ \A o \in Slots \ {r} : mgr[o].deploy_id # mgr[r].deploy_id
         /\ pc[r] = "done" => IdsIn(resp[r].logs) = {mgr[r].deploy_id}

\* the configs a successful parse of some config file yields
ParsedConfigs == {load_server_config(f)[1] : f \in ParseableFiles}

\* C19: the active config is always the complete result of one successful
\* parse, with its port pinned; every change of it installs the whole parse
\* of the file as it is on disk, and a reload whose parse fails changes
\* nothing.
C19_ConfigNeverPartial ==
  /\ [](\E c \in ParsedConfigs, p \in {StartupPort, OtherPort} :
         config = [c EXCEPT !.server.port = p])
  /\ [][config' # config
         => /\ load_server_config(file) # <<>>
            /\ config' = [load_server_config(file)[1]
                            EXCEPT !.server.port = config.server.port]]_vars
  /\ [][load_server_config(file) = <<>> => config' = config]_vars

C19_Witness ==
  /\ file = "garbage"
  /\ last_error = <<ReloadError>>
  /\ last_modified = <<0>>
  /\ mtime = 1
  /\ config \in ParsedConfigs

RewrittenWithNewKey(f) ==
  /\ file = f
  /\ mtime > 0
  /\ load_server_config(f)[1].server.allowed_keys
       \ config.server.allowed_keys # {}

\* the active config is the parse of f but for the port, and the gate
\* treats every signed request as the file's config would
ActiveIs(f) ==
  /\ config = [load_server_config(f)[1]
                 EXCEPT !.server.port = config.server.port]
  /\ \A q \in SignedRequests :
       deploy_gate(q, config) = deploy_gate(q, load_server_config(f)[1])

\* C21 as stated: whenever the config file has been rewritten after the
\* startup load with a parseable config that lists a new key, that config,
\* but for its port, becomes the active config at the watcher's next poll
\* (unless the file is rewritten again or the server shuts down first), so
\* that requests signed with the new key pass the gate.
C21_RewriteBecomesActive ==
  \A f \in ParseableFiles :
    RewrittenWithNewKey(f) ~> (ActiveIs(f) \/ file # f \/ shutdown)

\* C22 as stated: while the config file keeps failing to parse with the same
\* error text, the watcher logs the reload-failure warning for it once, not
\* once per poll.
C22_ReloadWarningOnce ==
  (load_server_config(file) = <<>>) => warned <= 1

\* the three values of snapshot s are the ones version c holds for the package
FromVersion(s, c, package_name) ==
  /\ s.allowed_keys = c.server.allowed_keys
  /\ s.max_file_size = c.server.max_file_size
  /\ s.package_config = IF package_name \in DOMAIN c.packages
                        THEN <<c.packages[package_name]>>
                        ELSE <<>>

\* C23: the allowed_keys, package entry and max_file_size a request works
\* with all come from one config the lock has held, whatever the watcher
\* published before or after, and the request reads them before it verifies
\* the signature and before any engine work.
C23_SnapshotFromOneVersion ==
  \A r \in Slots :
    Has(steps[r], "snapshot")
      => /\ \E v \in 1..Len(published) :
              FromVersion(snap[r], published[v], req[r].package_name)
         /\ \A i, j \in 1..Len(steps[r]) :
              (steps[r][i] = "snapshot"
                 /\ steps[r][j] \in {"verify"} \cup EngineSteps)
                => i < j

C23_Witness ==
  \E r \in Slots :
    /\ EngineEntered(r)
    /\ pc[r] \notin {"idle", "done"}
    /\ Len(published) = 2
    /\ FromVersion(snap[r], published[1], req[r].package_name)
    /\ snap[r].allowed_keys # config.server.allowed_keys
    /\ snap[r].max_file_size # config.server.max_file_size

\* C24: once start_server_with_shutdown has returned the shutdown signal is
\* set, the watcher task then eventually terminates, and a watcher that has
\* seen the signal and left its loop never replaces the active config again.
C24_ReturnStopsWatcher ==
  /\ [](server = "returned" => shutdown)
  /\ (server = "returned") ~> (watcher = "stopped")
  /\ [][watcher = "stopped" => (config' = config /\ watcher' = "stopped")]_vars

C24_Witness ==
  /\ server = "returned"
  /\ watcher = "stopped"
  /\ last_modified # <<>>
  /\ mtime > last_modified[1]
  /\ load_server_config(file) # <<>>

\* C25 as stated: at every moment the transport's maximum message size is at
\* least the max archive size in effect in the active config, 100 MiB when
\* max_file_size is 0.
C25_TransportLimitCoversConfig ==
  message_limit >= resolve_message_limit(config.server.max_file_size)

\* C26 as stated: the allow-list test trims both sides, so a request key that
\* differs from an allowed_keys entry only by surrounding whitespace is a
\* member and is not turned away as "Client public key not allowed".
C26_MembershipAfterTrimming ==
  \A r \in Slots :
    (/\ pc[r] = "done"
     /\ req[r].signature.wellformed
     /\ \E allowed_key \in config.server.allowed_keys :
          Trim(allowed_key) = Trim(req[r].public_key))
      => ~(/\ resp[r].transport = "error"
           /\ resp[r].message = "Client public key not allowed")

\* C27: the client works with the remote entry keyed by the host when there
\* is one, else with the entry keyed "default" when there is one, and else
\* returns the ConfigError "No server configuration found for host" having
\* opened no connection and sent no request.
C27_RemoteResolution ==
  cl_pc # "idle" =>
    LET remotes == cl_in.config.remotes
        host == cl_in.host
    IN IF host \in DOMAIN remotes
       THEN cl_remote = <<remotes[host]>>
       ELSE IF "default" \in DOMAIN remotes
       THEN cl_remote = <<remotes["default"]>>
       ELSE /\ cl_pc = "returned"
            /\ cl_result =
                 ClientErr("Config",
                           "No server configuration found for host: " \o host)
            /\ cl_channel = 0
            /\ cl_sent = <<>>

C27_Witness ==
  /\ cl_pc = "returned"
  /\ cl_in.host \notin DOMAIN cl_in.config.remotes
  /\ cl_remote = <<RemoteDefault>>
  /\ cl_sent # <<>>

\* the package names of the requests sent so far, in order
SentNames == [i \in 1..Len(cl_sent) |-> cl_sent[i].package_name]

\* the requested names that the client config declares, in the order given
DeclaredNames ==
  IF cl_in.package_names = <<>> THEN <<>>
  ELSE SelectSeq(cl_in.package_names[1],
                 LAMBDA name : name \in DOMAIN cl_in.config.packages)

ReplyFailed(reply) == reply.transport = "error" \/ ~reply.success

CanBePackaged(name) ==
  \A i \in 1..Len(ClientPackages[name].sources) :
    ClientPackages[name].sources[i] \in DOMAIN SourceFiles

\* C28: the requests of one invocation go out one at a time, in the order the
\* names were given; the first package that cannot be packaged, or whose
\* request is answered by an error status or by success = false, makes the
\* client return an error with nothing sent for it or for any later
\* package, and a returned client sends nothing more.
C28_InOrderStopAtFirstFailure ==
  /\ [](/\ IsPrefix(SentNames, DeclaredNames)
        /\ Len(cl_sent) - Len(cl_replies) \in {0, 1}
        /\ \A i \in 1..Len(cl_sent) : CanBePackaged(cl_sent[i].package_name)
        /\ \A i \in 1..Len(cl_replies) :
             ReplyFailed(cl_replies[i])
               => /\ i = Len(cl_sent)
                  /\ cl_pc = "returned"
                  /\ cl_result # <<>> /\ ~cl_result[1].ok
        /\ (cl_pc = "returned" /\ SentNames # DeclaredNames)
             => (cl_result # <<>> /\ ~cl_result[1].ok))
  /\ [][cl_pc = "returned" => UNCHANGED <<cl_pc, cl_sent, cl_replies>>]_vars

C28_Witness ==
  /\ cl_pc = "returned"
  /\ Len(DeclaredNames) = 3
  /\ Len(cl_sent) = 2
  /\ cl_replies[1].success
  /\ ~cl_replies[2].success /\ cl_replies[2].transport = "ok"
  /\ cl_result[1].kind = "Deploy"

\* the max archive size in effect on the client: the remote entry's value
\* when it is set and positive, 100 MiB otherwise
EffectiveMaxArchiveSize(max_file_size) ==
  IF max_file_size # <<>> /\ max_file_size[1] > 0
  THEN max_file_size[1]
  ELSE DEFAULT_MAX_MESSAGE_SIZE

\* C29 as stated: no request the client sends carries an archive larger than
\* the max archive size in effect for the remote entry it resolved.
C29_NoOversizeRequestSent ==
  \A i \in 1..Len(cl_sent) :
    Len(cl_sent[i].file_data) <= EffectiveMaxArchiveSize(cl_remote[1].max_file_size)

\* whether some requested name is declared in the client config
SomeNameDeclared ==
  \E i \in 1..Len(cl_in.package_names[1]) :
    cl_in.package_names[1][i] \in DOMAIN cl_in.config.packages

\* C30 as stated: when none of the requested names is declared the client
\* returns the ConfigError "No packages found to deploy" and sends nothing.
C30_NoPackagesConfigError ==
  (cl_pc = "returned" /\ cl_in.package_names # <<>> /\ ~SomeNameDeclared)
    => /\ cl_result = ClientErr("Config", "No packages found to deploy")
       /\ cl_sent = <<>>

\* C30 amended: when none of the requested names is declared the client
\* sends nothing and returns an error: the ConfigError "No packages found to
\* deploy" once the remote entry resolved, the channel connected and the key
\* pair loaded, and the error of the first of those three that failed
\* otherwise.
C30_NoPackagesNothingSent ==
  (cl_pc = "returned" /\ cl_in.package_names # <<>> /\ ~SomeNameDeclared)
    => /\ cl_sent = <<>>
       /\ cl_result # <<>> /\ ~cl_result[1].ok
       /\ IF cl_remote = <<>>
          THEN cl_result[1].kind = "Config"
               /\ cl_result[1].message # "No packages found to deploy"
          ELSE IF cl_channel = 0 THEN cl_result[1].kind = "Network"
          ELSE IF cl_keys = <<>> THEN cl_result[1].kind = "Auth"
          ELSE cl_result = ClientErr("Config", "No packages found to deploy")

C30_Witness ==
  /\ cl_pc = "returned"
  /\ cl_in.package_names = << <<"missing-app">> >>
  /\ cl_channel = 1
  /\ cl_keys # <<>>
  /\ cl_result = ClientErr("Config", "No packages found to deploy")

\* C31: the bytes a deploy hands to extraction are the file_data bytes its
\* signature was verified over and its hash was recomputed over.
C31_ExtractedBytesAreVerifiedBytes ==
  \A r \in Slots :
    seen[r].unpacked # <<>>
      => /\ SignatureVerifies(r)
         /\ seen[r].hashed = <<req[r].file_data>>
         /\ seen[r].unpacked = <<req[r].file_data>>

C31_Witness ==
  \E r \in Slots :
    /\ Has(steps[r], "extracted")
    /\ Len(req[r].file_data) = MaxDataLen
    /\ seen[r].unpacked = <<req[r].file_data>>
    /\ Unpacked(req[r].file_data) # Unpacked(<<0>>)

\* C32: a signature made by key pair k over b verifies as true under k's
\* public key over b; a 64-byte signature that k did not make over b (made
\* by another key pair, made over other bytes, or all zero) verifies as
\* false, returned as a value and not as an error.
C32_VerifyMatchesSign ==
  au_verified # <<>> =>
    LET v == au_verified[1]
        made == au_signed[1]
        key == DecodePublicKey(Trim(v.public_key_str))
    IN (key # <<>> /\ v.signature_bytes.len = SignatureLen)
         => IF /\ key[1] = made.keypair
               /\ v.data = made.data
               /\ v.signature_bytes = made.signature
            THEN v.result = AuthOk(TRUE)
            ELSE v.result = AuthOk(FALSE)

C32_Witness ==
  /\ au_verified # <<>>
  /\ au_verified[1].signature_bytes = ZeroSignature
  /\ au_verified[1].public_key_str = <<"k1", LF>>
  /\ au_signed[1].keypair = "k1"
  /\ au_verified[1].result = AuthOk(FALSE)

\* the first path of a package's sources that does not exist
FirstAbsentSource(name) ==
  LET sources == ClientPackages[name].sources
      i == CHOOSE k \in 1..Len(sources) :
             /\ sources[k] \notin DOMAIN SourceFiles
             /\ \A m \in 1..(k - 1) : sources[m] \in DOMAIN SourceFiles
  IN sources[i]

\* C33: when a source path of the package the client has come to does not
\* exist, the invocation returns FileSystemError "Source path '<p>' does not
\* exist" for the first such path, and no request is ever sent for a package
\* with a missing source, also when an earlier source of it exists.
C33_MissingSourceFailsPackaging ==
  /\ \A i \in 1..Len(cl_sent) : CanBePackaged(cl_sent[i].package_name)
  /\ (/\ cl_pc = "returned"
      /\ cl_queue # <<>>
      /\ Len(cl_sent) = Len(cl_replies)
      /\ \A i \in 1..Len(cl_replies) : ~ReplyFailed(cl_replies[i]))
       => /\ ~CanBePackaged(Head(cl_queue).name)
          /\ cl_result =
               ClientErr("FileSystem",
                         "Source path '"
                           \o FirstAbsentSource(Head(cl_queue).name)
                           \o "' does not exist")

C33_Witness ==
  /\ cl_pc = "returned"
  /\ cl_queue # <<>>
  /\ Head(cl_queue).name = "broken"
  /\ Head(cl_queue).pkg.sources[1] \in DOMAIN SourceFiles
  /\ Len(cl_sent) = 1
  /\ Len(cl_replies) = 1
  /\ cl_result[1].kind = "FileSystem"

\* C34: after a successful deploy every member of the archive is in the
\* deploy directory with the archive's content, and every file the deploy
\* found there that is not a member is still there with the same content.
C34_ExtractionIsAdditive ==
  \A r \in Slots :
    (pc[r] = "done" /\ resp[r].transport = "ok" /\ resp[r].success)
      => /\ deploy_dir.exists
         /\ \A i \in ArchiveMembers(req[r].file_data) :
              /\ i \in DOMAIN deploy_dir.files
              /\ deploy_dir.files[i] = ArchiveContent(req[r].file_data, i)
         /\ \A f \in DOMAIN seen[r].entry.files
                    \ ArchiveMembers(req[r].file_data) :
              /\ f \in DOMAIN deploy_dir.files
              /\ deploy_dir.files[f] = seen[r].entry.files[f]

C34_Witness ==
  \E r \in Slots :
    /\ pc[r] = "done" /\ resp[r].success
    /\ BackupTxt \in DOMAIN seen[r].entry.files
    /\ BackupTxt \in DOMAIN deploy_dir.files
    /\ ArchiveMembers(req[r].file_data) # {}
    /\ ArchiveMembers(req[r].file_data) \subseteq DOMAIN deploy_dir.files
    /\ PreMarker \in DOMAIN deploy_dir.files

\* C35 as stated: when the package has no pre-hook, or no post-hook, no
\* subprocess runs for that stage and the transcript of a successful deploy
\* does not report that stage's script as succeeded.
C35_SkippedHookNotReportedSucceeded ==
  \A r \in Slots :
    (pc[r] = "done" /\ resp[r].transport = "ok" /\ resp[r].success)
      => /\ PackageConfig(r).before_deploy_script = <<>>
              => /\ ~Has(steps[r], "exec_pre")
                 /\ ~Has(resp[r].logs,
                         Entry("info", "Before-deploy script succeeded"))
         /\ PackageConfig(r).after_deploy_script = <<>>
              => /\ ~Has(steps[r], "exec_post")
                 /\ ~Has(resp[r].logs,
                         Entry("info", "After-deploy script succeeded"))

\* the stages from the backup to the extraction
InBackupOrExtraction(r) == pc[r] \in {"backup", "copy", "mkdir", "unpack"}

\* C36: a request is taken up whatever another task is doing with the same
\* package, and what it is answered at the gate depends on the request and
\* the config alone: it is admitted to the engine exactly when the gate
\* admits it, never turned away or held back because of the other deploy.
C36_NoPerPackageLock ==
  \A r \in Slots :
    /\ (pc[r] = "idle" /\ \A earlier \in Slots : earlier < r => pc[earlier] # "idle")
         => \A q \in ConcurrentRequests :
              ENABLED deploy_upto(r, q, Cardinality(Slots))
    /\ pc[r] # "idle"
         => LET gate == deploy_gate(req[r], config) IN
            IF gate.admitted
            THEN EngineEntered(r)
            ELSE /\ pc[r] = "done"
                 /\ resp[r] = TransportError(gate.code, gate.message)

C36_Witness ==
  \E a, b \in Slots :
    /\ a # b
    /\ req[a].package_name = req[b].package_name
    /\ InBackupOrExtraction(a)
    /\ Has(steps[a], "backup")
    /\ seen[a].backup.exists
    /\ ~Has(steps[a], "unpack")
    /\ Has(steps[b], "backup")
    /\ Has(steps[b], "extracted")
    /\ \E m \in ArchiveMembers(req[b].file_data) :
         /\ m \notin DOMAIN seen[a].backup.files
         /\ m \in DOMAIN deploy_dir.files

\* C39 as stated: two deploys that each write a backup snapshot never write
\* it into the same backup_<timestamp> directory.
C39_BackupDirectoriesDistinct ==
  \A a, b \in Slots :
    (a # b /\ Has(steps[a], "copy_start") /\ Has(steps[b], "copy_start"))
      => SnapshotName(a) # SnapshotName(b)

\* the poll the watcher is about to make finds the file newer than what it
\* last loaded
FileIsNewer == last_modified = <<>> \/ mtime > last_modified[1]

\* C37: a reload attempt that fails to parse leaves the watcher's last-seen
\* modification time where it was, so that while the failure stands the
\* file still counts as newer and every following poll parses it again; a
\* poll that finds the newer file parseable publishes it; and the last-seen
\* time moves only on a successful reload.
C37_FailedReloadIsRetried ==
  /\ []((watcher # "unspawned" /\ last_error = <<ReloadError>>) => FileIsNewer)
  /\ [][(watcher = "woken" /\ watcher' = "polling" /\ FileIsNewer)
          => IF load_server_config(file) = <<>>
             THEN /\ last_modified' = last_modified
                  /\ last_error' = <<ReloadError>>
                  /\ config' = config
             ELSE /\ last_modified' = <<mtime>>
                  /\ published' = Append(published, config')
                  /\ config'.packages = load_server_config(file)[1].packages
                  /\ config'.server.allowed_keys =
                       load_server_config(file)[1].server.allowed_keys]_vars
  /\ [][(watcher # "unspawned" /\ last_modified' # last_modified)
          => (published' # published /\ last_modified' = <<mtime>>)]_vars

C37_Witness ==
  /\ watcher = "woken"
  /\ last_error = <<ReloadError>>
  /\ last_modified = <<0>>
  /\ mtime = 2
  /\ load_server_config(file) # <<>>
  /\ file # "standard"
  /\ config = CfgStandard

\* the package entry in the snapshot the request took on arrival
SnapshotPackage(r) == snap[r].package_config[1]

\* C38: whatever the watcher publishes while a deploy is in the engine, the
\* deploy runs the hooks and takes the backup that the package entry of its
\* own snapshot calls for: a pre-hook, a backup or a post-hook runs only if
\* that entry has it, and runs if that entry has it and the deploy got to
\* that stage.
C38_DeployUsesItsSnapshot ==
  \A r \in Slots :
    EngineEntered(r)
      => /\ Has(steps[r], "exec_pre")
              => SnapshotPackage(r).before_deploy_script # <<>>
         /\ (Has(steps[r], "hash_check")
               /\ SnapshotPackage(r).before_deploy_script # <<>>)
              => Has(steps[r], "exec_pre")
         /\ Has(steps[r], "backup") => SnapshotPackage(r).backup_enabled
         /\ (Has(steps[r], "mkdir") /\ SnapshotPackage(r).backup_enabled)
              => Has(steps[r], "backup")
         /\ Has(steps[r], "exec_post")
              => SnapshotPackage(r).after_deploy_script # <<>>
         /\ (Has(steps[r], "complete")
               /\ SnapshotPackage(r).after_deploy_script # <<>>)
              => Has(steps[r], "exec_post")

C38_Witness ==
  \E r \in Slots :
    /\ Has(steps[r], "complete")
    /\ snap[r] = ConfigSnapshot(CfgStandard, "app")
    /\ config.packages = CfgBackupDisabled.packages
    /\ Has(steps[r], "exec_pre")
    /\ Has(steps[r], "backup")

\* C40: a client invocation returns success only if every requested name was
\* sent to the server and answered with success = true; a requested name the
\* client config does not declare makes the invocation fail.
C40_SuccessMeansEveryNameDeployed ==
  (cl_pc = "returned" /\ cl_result = ClientOk)
    => /\ cl_in.package_names # <<>>
       /\ SentNames = cl_in.package_names[1]
       /\ Len(cl_replies) = Len(cl_sent)
       /\ \A i \in 1..Len(cl_replies) : ~ReplyFailed(cl_replies[i])

====
